---- MODULE Spec2Model ----
(***************************************************************************)
(* PicoPy: the PicoLog1000 driver facade (PicoLog1000.py) and the Tango    *)
(* device server that drives it (PicoPyServer.py), as a state machine.     *)
(*                                                                         *)
(* The vendor SDK (picosdk.pl1000) is the environment: every SDK call      *)
(* answers with a status drawn from Status, and with the out-parameters    *)
(* the call has.  Each facade method is an operator from the facade's      *)
(* fields and the SDK's answers to the fields afterwards, the value        *)
(* returned, the exception raised and the SDK calls made.                  *)
(***************************************************************************)
EXTENDS Integers, Sequences, FiniteSets, TLC

VARIABLES
    pl,     \* the fields of the PicoLog1000 object
    srv,    \* the fields of the PicoPyServer device
    dev,    \* the logger itself: block capture requested, finished
    now,    \* time.time()
    wr,     \* the frame of a running wait_result(): its locals and its caller
    op      \* the last operation: name, arguments, result, SDK calls made

vars == <<pl, srv, dev, now, wr, op>>

----------------------------------------------------------------------------
(* Program constants *)

MAX_CAPTURE_SIZE == 1000000

US_LIMIT == 8096

(* Bounds of the model *)

\* time.time() is read on a clock that starts at 1 and is followed up to here
MaxTime == 2

----------------------------------------------------------------------------
(* Values *)

\* picosdk.constants.PICO_STATUS, the members the code tells apart: PICO_OK,
\* PICO_BUSY (ping tolerates it, any other call fails on it) and
\* PICO_NOT_FOUND (reconnect looks for it).  "None" is last_status before
\* any call.
Status == {"PICO_OK", "PICO_BUSY", "PICO_NOT_FOUND"}

\* A Python int that may not fit 32 bits: hi * 2^32 + lo, 0 <= lo < 2^31.
\* (Values with bit 31 set are left out: the model checker's integers end
\* at 2^31 - 1.)
Wide(h, l) == [hi |-> h, lo |-> l]

\* v < n for a Wide v and a small n
WideLess(v, n) == v.hi = 0 /\ v.lo < n

\* ctypes.c_uint32(v).value: the low 32 bits, silently
c_uint32(v) == v.lo

\* The Python comparison  stored != requested  of a 32-bit value with an int
WideDiffers(stored, v) == ~(v.hi = 0 /\ v.lo = stored)

\* (0.001 * record_us) / points, in ms, kept as the fraction it is
SamplingOf(record_us, points) == [num |-> record_us, den |-> 1000 * points]

\* The greatest common divisor of two positive integers
RECURSIVE Gcd(_, _)
Gcd(a, b) == IF b = 0 THEN a ELSE Gcd(b, a % b)

\* A single-precision number m * 2^(-e): m = 0, or 2^23 <= m < 2^24
Float32(m, e) == [m |-> m, e |-> e]

\* n/d brought to 2^23 <= n/d < 2^24 by powers of two counted in e (n, d > 0)
RECURSIVE Normalize(_, _, _)
Normalize(n, d, e) ==
    IF n < d * 8388608 THEN Normalize(2 * n, d, e + 1)
    ELSE IF n >= d * 16777216 THEN Normalize(n, 2 * d, e - 1)
    ELSE [n |-> n, d |-> d, e |-> e]

\* numpy.float32 of the number (n/d) * 2^(-s): the nearest number with a
\* 24-bit significand, a tie going to the even one
float32(n, d, s) ==
    IF n = 0 THEN Float32(0, 0)
    ELSE LET x == Normalize(n, d, s)
             q == x.n \div x.d
             rem == x.n % x.d
             m == IF 2 * rem > x.d \/ (2 * rem = x.d /\ q % 2 = 1)
                  THEN q + 1 ELSE q
         IN IF m = 16777216 THEN Float32(8388608, x.e - 1) ELSE Float32(m, x.e)

\* the float32 sum of two float32 numbers
float32_add(a, b) ==
    IF a.m = 0 THEN b
    ELSE IF b.m = 0 THEN a
    ELSE LET e == IF a.e > b.e THEN a.e ELSE b.e
         IN float32(a.m * 2^(e - a.e) + b.m * 2^(e - b.e), 1, e)

\* linspace(0.0, (points - 1) * sampling, points)[j]: j steps of sampling
\* (one number, 0.0, when points = 1)
linspace_at(sampling, j) == float32(j * sampling.num, sampling.den, 0)

\* the shift of row i without the division by the number of channels
times_shift_whole(sampling, i, nc) == float32(i * sampling.num, sampling.den, 0)

\* i * sampling / len(channels), the shift of row i, added to a float32 array
\* as a float32
times_shift(sampling, i, nc) == float32(i * sampling.num, sampling.den * nc, 0)

\* times[i, j] of a table made by set_timing: self.t[j] + i * sampling / nc
\* in single precision.  The table is kept by its shape and its step.
times_at(times, i, j) ==
    LET g == Gcd(times.step.num, times.step.den)
        sampling == [num |-> times.step.num \div g, den |-> times.step.den \div g]
    IN float32_add(linspace_at(sampling, j), times_shift(sampling, i, times.rows))

\* numpy.empty((rows, cols)): a fresh buffer whose content is not yet written
NewBuffer(rows, cols) ==
    [rows |-> rows, cols |-> cols, n |-> 0, samples |-> "uninitialized"]

\* the timings array: row i is linspace(0, (cols-1)*sampling, cols)
\* + i*sampling/rows; kept as the parameters it is built from
NewTimes(rows, cols, sampling) == [rows |-> rows, cols |-> cols, step |-> sampling]

\* self.data = None
NoBuffer == [rows |-> 0, cols |-> 0, n |-> 0, samples |-> "None"]

NoTimes == [rows |-> 0, cols |-> 0, step |-> [num |-> 0, den |-> 0]]

----------------------------------------------------------------------------
(* PicoLog1000 *)

\* PicoLog1000.__init__
NewPicoLog ==
    [handle |-> "None", opened |-> FALSE, last_status |-> "None",
     channels |-> <<>>, points |-> 1, record_us |-> 10,
     sampling |-> [num |-> 10, den |-> 1000],
     trigger_enabled |-> 0, trigger_channel |-> [str |-> "PL1000_CHANNEL_1"],
     trigger_edge |-> 0, trigger_threshold |-> 2048,
     trigger_hysteresis |-> 100, trigger_delay |-> 10,
     trigger_auto |-> 0, trigger_ms |-> 1000,
     data |-> NoBuffer, times |-> NoTimes,
     overflow |-> 0, trigger |-> 0,
     recording_start_time |-> 0, recording_end_time |-> 0, read_time |-> 0,
     reconnect_enabled |-> FALSE, reconnect_timeout |-> 1, reconnect_count |-> 3]

\* What a method call leaves behind: the fields, the value returned, the
\* exception raised, the SDK calls made and the messages logged
Outcome(p, ret, exc, calls, log) ==
    [pl |-> p, ret |-> ret, exc |-> exc, calls |-> calls, log |-> log]

\* picosdk.functions.assert_pico_ok raises unless the status is PICO_OK
pico_ok(status) == status = "PICO_OK"

\* ping(): negative unless the unit answers PICO_OK or PICO_BUSY
ping_ok(status) == status \in {"PICO_OK", "PICO_BUSY"}

\* assert_open() without the test of handle and opened
assert_open_untested(p, pingSt) ==
    LET q == [p EXCEPT !.last_status = pingSt] IN
    IF ~ping_ok(pingSt) /\ ~pico_ok(pingSt)
    THEN Outcome(q, "None", "PicoSDKCtypesError", <<"PingUnit">>, {})
    ELSE Outcome(q, "True", "none", <<"PingUnit">>, {})

\* assert_open(): ClosedDeviceError without a call when not opened; else one
\* ping, whose status is asserted when the ping is negative
assert_open(p, pingSt) ==
    IF p.handle = "None" \/ ~p.opened
    THEN Outcome(p, "None", "ClosedDeviceError", <<>>, {})
    ELSE LET q == [p EXCEPT !.last_status = pingSt] IN
         IF ~ping_ok(pingSt) /\ ~pico_ok(pingSt)
         THEN Outcome(q, "None", "PicoSDKCtypesError", <<"PingUnit">>, {})
         ELSE Outcome(q, "True", "none", <<"PingUnit">>, {})

\* set_timing: total_points > MAX_CAPTURE_SIZE
too_many_points(nc, channel_points) == nc * channel_points > MAX_CAPTURE_SIZE

\* the clamp without the division by the number of channels
clamp_points_whole(nc, channel_points) ==
    IF too_many_points(nc, channel_points)
    THEN MAX_CAPTURE_SIZE
    ELSE channel_points

\* the request passed on as it is
clamp_points_asked(nc, channel_points) == channel_points

\* set_timing: the points per channel the device is asked for
clamp_points(nc, channel_points) ==
    IF too_many_points(nc, channel_points)
    THEN MAX_CAPTURE_SIZE \div nc
    ELSE channel_points

\* the 10 us floor applied to every capture
min_interval_10(total_points) == 10

\* set_timing: the shortest interval between samples, in us
min_interval(total_points) == IF total_points <= US_LIMIT THEN 1 ELSE 10

\* the comparison with the floor made inclusive
too_fast_inclusive(total_points, channel_record_us) ==
    WideLess(channel_record_us, total_points * min_interval(total_points) + 1)

\* set_timing: float(channel_record_us) / total_points is under the minimum.
\* For integers the quotient is under 1.0 (10.0) exactly when the record
\* time is under total_points (10 * total_points).
too_fast(total_points, channel_record_us) ==
    WideLess(channel_record_us, total_points * min_interval(total_points))

\* set_timing: the record time the device is asked for
correct_record_us(total_points, channel_record_us) ==
    IF too_fast(total_points, channel_record_us)
    THEN Wide(0, total_points * min_interval(total_points))
    ELSE channel_record_us

\* pl1000SetInterval takes us_for_block by reference and may change it; the
\* number of samples goes by value.  The unit keeps the time or rounds it
\* down to a whole number of microseconds per sample.
SetIntervalAnswers(t_us, total_points) ==
    {t_us} \cup {u \in {(t_us \div total_points) * total_points} : u > 0}

\* The t_us that set_timing hands to pl1000SetInterval: c_uint32(cr)
requested_t_us(channels, channel_points, channel_record_us) ==
    c_uint32(correct_record_us(
        Len(channels) * clamp_points(Len(channels), channel_points),
        channel_record_us))

\* the channels stored before the status is looked at
interval_refused_stored(p, channels, status) ==
    [p EXCEPT !.last_status = status, !.channels = channels]

\* set_timing: pl1000SetInterval answered with a status that assert_pico_ok
\* refuses; the status is all that was stored
interval_refused(p, channels, status) == [p EXCEPT !.last_status = status]

\* set_timing(channels, channel_points, channel_record_us); r: the SDK's
\* answers (ping, status, t_us).  n = c_uint32(cp) keeps cp: the clamp leaves
\* 0 < cp <= MAX_CAPTURE_SIZE.
set_timing(p, channels, channel_points, channel_record_us, r) ==
    LET nc == Len(channels)
        cp == clamp_points(nc, channel_points)
        total_points == nc * cp
        log1 == IF too_many_points(nc, channel_points)
                THEN {"Too many points requested"} ELSE {}
    IN
    IF total_points = 0
    THEN Outcome(p, "None", "ZeroDivisionError", <<>>, log1)
    ELSE
    LET cr == correct_record_us(total_points, channel_record_us)
        log2 == log1 \cup IF too_fast(total_points, channel_record_us)
                          THEN {"Requested recording is too fast"} ELSE {}
        a  == assert_open(p, r.ping)
    IN
    IF a.exc # "none" THEN [a EXCEPT !.log = log2]
    ELSE IF ~pico_ok(r.status)
    THEN Outcome(interval_refused(a.pl, channels, r.status), "None",
                 "PicoSDKCtypesError", a.calls \o <<"SetInterval">>, log2)
    ELSE
    LET points    == cp
        record_us == r.t_us
        sampling  == SamplingOf(record_us, points)
        differ_n  == points # channel_points
        differ_t  == WideDiffers(record_us, channel_record_us)
        q == [a.pl EXCEPT !.last_status = r.status,
                          !.channels = channels,
                          !.points = points,
                          !.record_us = record_us,
                          !.sampling = sampling,
                          !.data = NewBuffer(nc, points),
                          !.times = NewTimes(nc, points, sampling)]
    IN Outcome(q,
               IF differ_n \/ differ_t THEN "False" ELSE "True",
               "none", a.calls \o <<"SetInterval">>,
               log2 \cup (IF differ_n THEN {"number of points corrected"} ELSE {})
                    \cup (IF differ_t THEN {"channel record time has been corrected"}
                          ELSE {}))

\* open() letting the device error of a failed call go to the caller
open_raising(p, r) ==
    LET q == [p EXCEPT !.handle = "c_int16", !.last_status = r.open] IN
    IF ~pico_ok(r.open)
    THEN Outcome([q EXCEPT !.opened = FALSE], "None", "PicoSDKCtypesError",
                 <<"OpenUnit">>, {})
    ELSE IF ~pico_ok(r.max)
    THEN Outcome([q EXCEPT !.last_status = r.max, !.opened = FALSE], "None",
                 "PicoSDKCtypesError", <<"OpenUnit", "MaxValue">>, {})
    ELSE Outcome([q EXCEPT !.last_status = r.max, !.opened = TRUE], "None", "none",
                 <<"OpenUnit", "MaxValue">>, {"Device has been opened"})

\* open(): every failure is caught and logged, and leaves opened False.
\* r: the SDK's answers (open, max)
open(p, r) ==
    LET q == [p EXCEPT !.handle = "c_int16", !.last_status = r.open] IN
    IF ~pico_ok(r.open)
    THEN Outcome([q EXCEPT !.opened = FALSE], "None", "none",
                 <<"OpenUnit">>, {"Can not open picolog"})
    ELSE IF ~pico_ok(r.max)
    THEN Outcome([q EXCEPT !.last_status = r.max, !.opened = FALSE], "None", "none",
                 <<"OpenUnit", "MaxValue">>, {"Can not open picolog"})
    ELSE Outcome([q EXCEPT !.last_status = r.max, !.opened = TRUE], "None", "none",
                 <<"OpenUnit", "MaxValue">>, {"Device has been opened"})

\* close() without the assert on the status
close_unasserted(p, r) ==
    IF p.handle = "None"
    THEN Outcome(p, "None", "ArgumentError", <<>>, {})
    ELSE Outcome([p EXCEPT !.last_status = r.status], "None", "none",
                 <<"CloseUnit">>, {})

\* close(): pl1000CloseUnit(self.handle) and assert_pico_ok.  Without a handle
\* (None for a c_int16 argument) ctypes refuses the call.  r: (status)
close(p, r) ==
    IF p.handle = "None"
    THEN Outcome(p, "None", "ArgumentError", <<>>, {})
    ELSE LET q == [p EXCEPT !.last_status = r.status] IN
         IF ~pico_ok(r.status)
         THEN Outcome(q, "None", "PicoSDKCtypesError", <<"CloseUnit">>, {})
         ELSE Outcome(q, "None", "none", <<"CloseUnit">>, {})

\* start_recording(): n_values and mode left at their defaults.
\* r: (ping, status); t: time.time()
start_recording(p, r, t) ==
    LET a == assert_open(p, r.ping) IN
    IF a.exc # "none" THEN a
    ELSE LET q == [a.pl EXCEPT !.last_status = r.status] IN
         IF ~pico_ok(r.status)
         THEN Outcome(q, "None", "PicoSDKCtypesError", a.calls \o <<"Run">>, {})
         ELSE Outcome([q EXCEPT !.recording_start_time = t,
                                !.overflow = 0,
                                !.recording_end_time = 0,
                                !.read_time = 0],
                      "None", "none", a.calls \o <<"Run">>, {})

\* ready() stamping recording_end_time at every ready answer
ready_stamping(p, r, t) ==
    LET a == assert_open(p, r.ping) IN
    IF a.exc # "none" THEN a
    ELSE LET q == [a.pl EXCEPT !.last_status = r.status] IN
         IF ~pico_ok(r.status)
         THEN Outcome(q, "None", "PicoSDKCtypesError", a.calls \o <<"Ready">>, {})
         ELSE IF r.ready = 1
         THEN Outcome([q EXCEPT !.recording_end_time = t],
                      "1", "none", a.calls \o <<"Ready">>, {})
         ELSE Outcome(q, "0", "none", a.calls \o <<"Ready">>, {})

\* ready(): one pl1000Ready query; returns ready.value.
\* r: (ping, status, ready); t: time.time()
ready(p, r, t) ==
    LET a == assert_open(p, r.ping) IN
    IF a.exc # "none" THEN a
    ELSE LET q == [a.pl EXCEPT !.last_status = r.status] IN
         IF ~pico_ok(r.status)
         THEN Outcome(q, "None", "PicoSDKCtypesError", a.calls \o <<"Ready">>, {})
         ELSE IF r.ready = 1
         THEN Outcome(IF q.recording_end_time = 0
                      THEN [q EXCEPT !.recording_end_time = t] ELSE q,
                      "1", "none", a.calls \o <<"Ready">>, {})
         ELSE Outcome(q, "0", "none", a.calls \o <<"Ready">>, {})

\* read() returning early when the device is not ready
read_values_when_ready(p, r, t) ==
    LET a == ready(p, r, t) IN
    IF a.exc # "none" THEN a
    ELSE IF a.ret = "0"
    THEN Outcome(a.pl, "None", "none", a.calls, {"read - device is not ready"})
    ELSE IF a.pl.data = NoBuffer
    THEN Outcome(a.pl, "None", "AttributeError", a.calls, {})
    ELSE LET q == [a.pl EXCEPT !.last_status = r.gv] IN
         IF ~pico_ok(r.gv)
         THEN Outcome(q, "None", "PicoSDKCtypesError", a.calls \o <<"GetValues">>, {})
         ELSE Outcome([q EXCEPT !.read_time = t,
                                !.overflow = r.overflow,
                                !.trigger = r.trigger,
                                !.data = [q.data EXCEPT !.n = r.n, !.samples = r.samples]],
                      "None", "none", a.calls \o <<"GetValues">>,
                      IF q.points # r.n THEN {"data partial reading"} ELSE {})

\* read(), after its wait: a readiness query that only logs when the device
\* is not ready, then pl1000GetValues into self.data.  r: (ping, status, ready)
\* for the query and (gv, n, overflow, trigger, samples) for pl1000GetValues;
\* t: time.time()
read_values(p, r, t) ==
    LET a == ready(p, r, t)
        log1 == IF a.ret = "0" THEN {"read - device is not ready"} ELSE {}
    IN
    IF a.exc # "none" THEN a
    ELSE IF a.pl.data = NoBuffer
    THEN Outcome(a.pl, "None", "AttributeError", a.calls, log1)
    ELSE LET q == [a.pl EXCEPT !.last_status = r.gv] IN
         IF ~pico_ok(r.gv)
         THEN Outcome(q, "None", "PicoSDKCtypesError", a.calls \o <<"GetValues">>, log1)
         ELSE Outcome([q EXCEPT !.read_time = t,
                                !.overflow = r.overflow,
                                !.trigger = r.trigger,
                                !.data = [q.data EXCEPT !.n = r.n, !.samples = r.samples]],
                      "None", "none", a.calls \o <<"GetValues">>,
                      log1 \cup IF q.points # r.n THEN {"data partial reading"}
                                ELSE {})

\* wait_result's interval between polls, in ticks of the clock: one tick
\* of `now` is 0.1 s wherever wait_result runs
dt == 1

\* (t2 - t1) < 0.9 * dt: the sleep of dt has not shown on the clock
timer_suspect(t1, t2) == 10 * (t2 - t1) < 9 * dt

\* the count tested against one sleep more
counted_out_late(i, timeout) == i * dt > timeout + dt

\* i*dt > timeout: more than timeout slept, by count
counted_out(i, timeout) == i * dt > timeout

\* the timeout test with the bound included
timed_out_inclusive(t, t0, timeout) == t - t0 >= timeout

\* (time.time() - t0) > timeout
timed_out(t, t0, timeout) == t - t0 > timeout

\* stop().  r: (ping, status)
stop(p, r) ==
    LET a == assert_open(p, r.ping) IN
    IF a.exc # "none" THEN a
    ELSE LET q == [a.pl EXCEPT !.last_status = r.status] IN
         IF ~pico_ok(r.status)
         THEN Outcome(q, "None", "PicoSDKCtypesError", a.calls \o <<"Stop">>, {})
         ELSE Outcome(q, "None", "none", a.calls \o <<"Stop">>, {})

\* pl1000.PL1000Inputs[channel]: a channel given by name
PL1000Inputs(channel) ==
    CASE channel = "PL1000_CHANNEL_1" -> 1
      [] channel = "PL1000_CHANNEL_2" -> 2
      [] OTHER -> 0

\* isinstance(channel, str): a channel is [str |-> name] or [int |-> number]
is_str(channel) == "str" \in DOMAIN channel

\* set_trigger storing its arguments before it asserts the status
set_trigger_stored_first(p, a, r) ==
    LET o == assert_open(p, r.ping) IN
    IF o.exc # "none" THEN o
    ELSE IF is_str(a.channel) /\ PL1000Inputs(a.channel.str) = 0
    THEN Outcome(o.pl, "None", "KeyError", o.calls, {})
    ELSE LET channel == IF is_str(a.channel) THEN PL1000Inputs(a.channel.str)
                        ELSE a.channel.int
             q == [o.pl EXCEPT !.last_status = r.status,
                               !.trigger_enabled = a.enabled,
                               !.trigger_channel = [int |-> channel],
                               !.trigger_edge = a.edge,
                               !.trigger_threshold = a.threshold,
                               !.trigger_hysteresis = a.hysteresis,
                               !.trigger_delay = a.delay_percent,
                               !.trigger_auto = a.auto_trigger,
                               !.trigger_ms = a.auto_ms]
         IN IF ~pico_ok(r.status)
            THEN Outcome(q, "None", "PicoSDKCtypesError",
                         o.calls \o <<"SetTrigger">>, {})
            ELSE Outcome(q, "None", "none", o.calls \o <<"SetTrigger">>, {})

\* set_trigger(enabled, channel, edge, threshold, hysteresis, delay_percent,
\* auto_trigger, auto_ms); a: the arguments; r: (ping, status)
set_trigger(p, a, r) ==
    LET o == assert_open(p, r.ping) IN
    IF o.exc # "none" THEN o
    ELSE IF is_str(a.channel) /\ PL1000Inputs(a.channel.str) = 0
    THEN Outcome(o.pl, "None", "KeyError", o.calls, {})
    ELSE LET channel == IF is_str(a.channel) THEN PL1000Inputs(a.channel.str)
                        ELSE a.channel.int
             q == [o.pl EXCEPT !.last_status = r.status]
         IN IF ~pico_ok(r.status)
            THEN Outcome(q, "None", "PicoSDKCtypesError",
                         o.calls \o <<"SetTrigger">>, {})
            ELSE Outcome([q EXCEPT !.trigger_enabled = a.enabled,
                                   !.trigger_channel = [int |-> channel],
                                   !.trigger_edge = a.edge,
                                   !.trigger_threshold = a.threshold,
                                   !.trigger_hysteresis = a.hysteresis,
                                   !.trigger_delay = a.delay_percent,
                                   !.trigger_auto = a.auto_trigger,
                                   !.trigger_ms = a.auto_ms],
                         "None", "none", o.calls \o <<"SetTrigger">>, {})

\* get_info(): a failed assert_open is logged and every failed
\* pl1000GetUnitInfo is passed over; last_status is the last answer.
\* r: (ping, info)
get_info(p, r) ==
    LET o == assert_open(p, r.ping) IN
    Outcome([o.pl EXCEPT !.last_status = r.info], "info", "none",
            o.calls \o <<"GetUnitInfo">>, {})

\* reconnect() whatever the last status was
reconnect_wanted_enabled(p) == p.reconnect_enabled

\* reconnect(): the two returns of lines 361-364 are passed when reconnect is
\* enabled and the last status is PICO_NOT_FOUND
reconnect_wanted(p) == p.reconnect_enabled /\ p.last_status = "PICO_NOT_FOUND"

\* reconnect(): the cooldown test of line 368, time.time() against
\* reconnect_timeout; when it is true the call returns without an attempt
cooldown_return(t, reconnect_timeout) == t - reconnect_timeout >= 0

\* reconnect(), the except branch without the assignment to opened
reconnect_failed_open(p, t) == [p EXCEPT !.reconnect_timeout = t + 5]

\* reconnect(), the except branch: every exception of the attempt but
\* KeyboardInterrupt ends here
reconnect_failed(p, t) ==
    [p EXCEPT !.reconnect_timeout = t + 5, !.opened = FALSE]

\* the trigger parameters the facade holds, as reconnect() passes them on
stored_trigger(p) ==
    [enabled |-> p.trigger_enabled, channel |-> p.trigger_channel,
     edge |-> p.trigger_edge, threshold |-> p.trigger_threshold,
     hysteresis |-> p.trigger_hysteresis, delay_percent |-> p.trigger_delay,
     auto_trigger |-> p.trigger_auto, auto_ms |-> p.trigger_ms]

\* reconnect().  The statuses of pl1000Stop and pl1000CloseUnit are kept in
\* locals and never looked at; open() swallows its own failure, which shows
\* in the not-open error of set_timing.  r: the SDK's answers (open: open,
\* max; timing: ping, status, t_us; trigger: ping, status); t: time.time().
reconnect(p, r, t) ==
    IF ~reconnect_wanted(p) THEN Outcome(p, "None", "none", <<>>, {})
    ELSE
    LET q == [p EXCEPT !.reconnect_count = @ - 1] IN
    IF q.reconnect_count > 0 THEN Outcome(q, "None", "none", <<>>, {})
    ELSE IF cooldown_return(t, q.reconnect_timeout)
    THEN Outcome(q, "None", "none", <<>>, {})
    ELSE IF q.handle = "None"
    THEN Outcome(reconnect_failed(q, t), "None", "none", <<>>, {})
    ELSE
    LET first == <<"Stop", "CloseUnit">>
        after_open(o) ==
          LET after_timing(s) ==
                IF s.exc # "none"
                THEN Outcome(reconnect_failed(s.pl, t), "None", "none",
                             first \o o.calls \o s.calls, o.log \cup s.log)
                ELSE
                LET after_trigger(g) ==
                      IF g.exc # "none"
                      THEN Outcome(reconnect_failed(g.pl, t), "None",
                                   "none", first \o o.calls \o s.calls \o g.calls,
                                   o.log \cup s.log \cup g.log)
                      ELSE Outcome([g.pl EXCEPT !.reconnect_count = 3,
                                                !.reconnect_timeout = t + 5],
                                   "None", "none",
                                   first \o o.calls \o s.calls \o g.calls,
                                   o.log \cup s.log \cup g.log)
                IN after_trigger(set_trigger(s.pl, stored_trigger(s.pl), r.trigger))
          IN after_timing(set_timing(o.pl, o.pl.channels, o.pl.points,
                                     Wide(0, o.pl.record_us), r.timing))
    IN after_open(open(q, r.open))

----------------------------------------------------------------------------
(* The logger behind the SDK *)

\* The effect of one successful SDK call on the logger: pl1000OpenUnit and
\* pl1000CloseUnit open and close the unit; pl1000Run starts a block capture
\* and pl1000Stop cancels it; a capture that has finished stays finished
\* until the next Run or Stop
device_call(d, call) ==
    CASE call = "OpenUnit"  -> [d EXCEPT !.unit = "open"]
      [] call = "CloseUnit" -> [d EXCEPT !.unit = "closed"]
      [] call = "Run"       -> [d EXCEPT !.running = TRUE, !.ready = FALSE]
      [] call = "Stop"      -> [d EXCEPT !.running = FALSE, !.ready = FALSE]
      [] OTHER              -> d

\* The logger after the calls of one method: all of them succeeded, except
\* the last one when the method raised on its status
RECURSIVE device_calls(_, _, _)
device_calls(d, calls, failed) ==
    IF calls = <<>> THEN d
    ELSE IF Len(calls) = 1 /\ failed THEN d
    ELSE device_calls(device_call(d, Head(calls)), Tail(calls), failed)

device_after(d, o) ==
    device_calls(d, o.calls, o.exc = "PicoSDKCtypesError" \/ "Can not open picolog" \in o.log)

\* What pl1000Ready can answer: whether the running capture has finished;
\* with no capture running the answer is the unit's to choose
ReadyAnswers(d) == IF d.running THEN {IF d.ready THEN 1 ELSE 0} ELSE {0, 1}

\* What pl1000GetValues can deliver into a buffer of `points` per channel:
\* all of them or fewer, the overflow mask, the trigger index and the samples
ValuesAnswers(points) ==
    {[n |-> points, overflow |-> 0, trigger |-> 0, samples |-> "A"],
     [n |-> points \div 2, overflow |-> 1, trigger |-> 7, samples |-> "B"]}

----------------------------------------------------------------------------
(* PicoPyServer *)

\* What a device-server method leaves behind: the server's fields, the
\* facade's, the logger, and the rest as for a facade method
Result(s, p, d, ret, exc, calls, log) ==
    [srv |-> s, pl |-> p, dev |-> d, ret |-> ret, exc |-> exc,
     calls |-> calls, log |-> log]

\* list_from_str: json.loads of the text; anything but a list gives []
list_from_str(input_str) ==
    CASE input_str = "[1]"          -> <<1>>
      [] input_str = "[1, 2, 3, 4]" -> <<1, 2, 3, 4>>
      [] input_str = "[1,2,3,4]"    -> <<1, 2, 3, 4>>
      [] OTHER                      -> <<>>

\* str(channels_list)
str_of_list(channels_list) ==
    CASE channels_list = <<1>>          -> "[1]"
      [] channels_list = <<1, 2, 3, 4>> -> "[1, 2, 3, 4]"
      [] OTHER                          -> "[]"

\* the trigger parameters set_trigger reads from a configuration that names
\* none of them
DefaultTrigger ==
    [enabled |-> 0, channel |-> [int |-> 1], edge |-> 0, threshold |-> 2048,
     hysteresis |-> 100, delay_percent |-> 10, auto_trigger |-> 0, auto_ms |-> 0]

\* stop_recording() clearing the two flags whether or not a record was in
\* progress
stop_recording_clearing(s, p, d, r) ==
    LET o == stop(p, r)
        s1 == [s EXCEPT !.record_initiated = FALSE, !.data_ready_value = FALSE]
    IN IF o.exc = "none"
       THEN Result([s1 EXCEPT !.state = "STANDBY"], o.pl, device_after(d, o),
                   "None", "none", o.calls, {"Recording has been stopped"})
       ELSE Result([s1 EXCEPT !.state = "FAULT"], o.pl, device_after(d, o),
                   "None", "none", o.calls, {"Recording stop error"})

\* stop_recording().  r: (ping, status)
stop_recording(s, p, d, r) ==
    LET o == stop(p, r)
        s1 == IF s.record_initiated
              THEN [s EXCEPT !.record_initiated = FALSE, !.data_ready_value = FALSE]
              ELSE s
    IN IF o.exc = "none"
       THEN Result([s1 EXCEPT !.state = "STANDBY"], o.pl, device_after(d, o),
                   "None", "none", o.calls, {"Recording has been stopped"})
       ELSE Result([s1 EXCEPT !.state = "FAULT"], o.pl, device_after(d, o),
                   "None", "none", o.calls, {"Recording stop error"})

\* _start(value) without the test of record_initiated
start_untested(s, p, d, value, r, t) ==
    LET o == start_recording(p, r, t) IN
    IF o.exc = "none"
    THEN Result([s EXCEPT !.record_initiated = TRUE,
                          !.data_ready_value = FALSE,
                          !.state = "RUNNING"],
                o.pl, device_after(d, o), "True", "none", o.calls,
                {"Recording started"})
    ELSE Result([s EXCEPT !.record_initiated = FALSE, !.state = "FAULT"],
                o.pl, device_after(d, o), "False", "none", o.calls,
                {"Recording start error"})

\* _start(value) leaving data_ready_value as it is
start_keeping_ready(s, p, d, value, r, t) ==
    IF value > 0 /\ s.record_initiated
    THEN Result(s, p, d, "False", "none", <<>>,
                {"Can not start - record in progress"})
    ELSE LET o == start_recording(p, r, t) IN
         IF o.exc = "none"
         THEN Result([s EXCEPT !.record_initiated = TRUE, !.state = "RUNNING"],
                     o.pl, device_after(d, o), "True", "none", o.calls,
                     {"Recording started"})
         ELSE Result([s EXCEPT !.record_initiated = FALSE, !.state = "FAULT"],
                     o.pl, device_after(d, o), "False", "none", o.calls,
                     {"Recording start error"})

\* _start(value): refused for a positive value while a record is in
\* progress.  r: (ping, status); t: time.time()
_start(s, p, d, value, r, t) ==
    IF value > 0 /\ s.record_initiated
    THEN Result(s, p, d, "False", "none", <<>>,
                {"Can not start - record in progress"})
    ELSE LET o == start_recording(p, r, t) IN
         IF o.exc = "none"
         THEN Result([s EXCEPT !.record_initiated = TRUE,
                               !.data_ready_value = FALSE,
                               !.state = "RUNNING"],
                     o.pl, device_after(d, o), "True", "none", o.calls,
                     {"Recording started"})
         ELSE Result([s EXCEPT !.record_initiated = FALSE, !.state = "FAULT"],
                     o.pl, device_after(d, o), "False", "none", o.calls,
                     {"Recording start error"})

\* start_recording(): stop_recording(), then _start() with value 0.
\* r1, r2: (ping, status) for the stop and for the start
server_start_recording(s, p, d, r1, r2, t) ==
    LET a == stop_recording(s, p, d, r1)
        b == _start(a.srv, a.pl, a.dev, 0, r2, t)
    IN Result(b.srv, b.pl, b.dev, "None", "none", a.calls \o b.calls,
              a.log \cup b.log)

\* the try block of read() with a partial capture taken for a failure
server_read_strict(s, p, d, r1, r2, t) ==
    LET o1 == ready(p, r1, t) IN
    IF o1.exc # "none"
    THEN Result([s EXCEPT !.record_initiated = FALSE, !.data_ready_value = FALSE],
                o1.pl, d, "None", "none", o1.calls, {"Reading data error"})
    ELSE IF o1.ret = "1"
    THEN LET o2 == read_values(o1.pl, r2, t) IN
         IF o2.exc # "none" \/ "data partial reading" \in o2.log
         THEN Result([s EXCEPT !.record_initiated = FALSE,
                               !.data_ready_value = FALSE],
                     o2.pl, d, "None", "none", o1.calls \o o2.calls,
                     o2.log \cup {"Reading data error"})
         ELSE Result([s EXCEPT !.record_initiated = FALSE,
                               !.data_ready_value = TRUE],
                     o2.pl, d, "None", "none", o1.calls \o o2.calls,
                     o2.log \cup {"Data hes been red"})
    ELSE Result(s, o1.pl, d, "None", "none", o1.calls, {})

\* read() past its test of record_initiated: the try block, a readiness
\* query and, when the logger is ready, the facade's read()
server_read_always(s, p, d, r1, r2, t) ==
    LET o1 == ready(p, r1, t) IN
    IF o1.exc # "none"
    THEN Result([s EXCEPT !.record_initiated = FALSE, !.data_ready_value = FALSE],
                o1.pl, d, "None", "none", o1.calls, {"Reading data error"})
    ELSE IF o1.ret = "1"
    THEN LET o2 == read_values(o1.pl, r2, t) IN
         IF o2.exc # "none"
         THEN Result([s EXCEPT !.record_initiated = FALSE,
                               !.data_ready_value = FALSE],
                     o2.pl, d, "None", "none", o1.calls \o o2.calls,
                     o2.log \cup {"Reading data error"})
         ELSE Result([s EXCEPT !.record_initiated = FALSE,
                               !.data_ready_value = TRUE],
                     o2.pl, d, "None", "none", o1.calls \o o2.calls,
                     o2.log \cup {"Data hes been red"})
    ELSE Result(s, o1.pl, d, "None", "none", o1.calls, {})

\* read() without its test of record_initiated
server_read_untested(s, p, d, r1, r2, t) == server_read_always(s, p, d, r1, r2, t)

\* read().  r1: (ping, status, ready) for the server's readiness query; r2:
\* the answers to the facade's read(); t: time.time()
server_read(s, p, d, r1, r2, t) ==
    IF ~s.record_initiated
    THEN Result(s, p, d, "False", "none", <<>>, {})
    ELSE server_read_always(s, p, d, r1, r2, t)

\* looping() asking for readiness and never reading
looping_querying(s, p, d, r0, r1, r2, t) ==
    LET then(o0) ==
          IF o0.exc # "none"
          THEN Result(s, o0.pl, d, "None", "none", o0.calls, {"Reading data error"})
          ELSE Result(s, o0.pl, d, "None", "none", o0.calls, {})
    IN IF ~s.record_initiated
       THEN Result(s, p, d, "None", "none", <<>>, {})
       ELSE then(ready(p, r0, t))

\* looping(), for the one device of device_list.  r0: (ping, status, ready)
\* for the loop's own readiness query
looping(s, p, d, r0, r1, r2, t) ==
    LET then(o0) ==
          IF o0.exc # "none"
          THEN Result(s, o0.pl, d, "None", "none", o0.calls, {"Reading data error"})
          ELSE IF o0.ret = "1"
          THEN LET done(b) ==
                     Result(b.srv, b.pl, b.dev, "None", "none", o0.calls \o b.calls,
                            b.log \cup {"Recording finished, data is ready"})
               IN done(server_read(s, o0.pl, d, r1, r2, t))
          ELSE Result(s, o0.pl, d, "None", "none", o0.calls, {})
    IN IF ~s.record_initiated
       THEN Result(s, p, d, "None", "none", <<>>, {})
       ELSE then(ready(p, r0, t))

\* set_sampling() leaving the configuration as it was requested
set_sampling_as_requested(s, p, d, r) ==
    LET then(o) ==
          IF o.exc # "none"
          THEN Result(s, o.pl, d, "None", o.exc, o.calls, o.log)
          ELSE Result([s EXCEPT !.data_ready_value = FALSE],
                      o.pl, d, "None", "none", o.calls, o.log)
    IN then(set_timing(p, list_from_str(s.config.channels),
                       s.config.points_per_channel,
                       s.config.channel_record_time_us, r))

\* set_sampling() leaving data_ready_value as it is
set_sampling_ready_kept(s, p, d, r) ==
    LET then(o) ==
          IF o.exc # "none"
          THEN Result(s, o.pl, d, "None", o.exc, o.calls, o.log)
          ELSE Result([s EXCEPT !.config.points_per_channel = o.pl.points,
                                !.config.channel_record_time_us =
                                    Wide(0, o.pl.record_us)],
                      o.pl, d, "None", "none", o.calls, o.log)
    IN then(set_timing(p, list_from_str(s.config.channels),
                       s.config.points_per_channel,
                       s.config.channel_record_time_us, r))

\* set_sampling().  r: (ping, status, t_us)
set_sampling(s, p, d, r) ==
    LET then(o) ==
          IF o.exc # "none"
          THEN Result(s, o.pl, d, "None", o.exc, o.calls, o.log)
          ELSE Result([s EXCEPT !.data_ready_value = FALSE,
                                !.config.points_per_channel = o.pl.points,
                                !.config.channel_record_time_us =
                                    Wide(0, o.pl.record_us)],
                      o.pl, d, "None", "none", o.calls, o.log)
    IN then(set_timing(p, list_from_str(s.config.channels),
                       s.config.points_per_channel,
                       s.config.channel_record_time_us, r))

\* write_channel_record_time_us(value): the key is set, set_sampling() is
\* called, and the key is put back when that raises.  r: (ping, status, t_us)
write_channel_record_time_us(s, p, d, value, r) ==
    LET last == s.config.channel_record_time_us
        then(b) ==
          IF b.exc # "none"
          THEN Result([b.srv EXCEPT !.config.channel_record_time_us = last],
                      b.pl, b.dev, "None", "none", b.calls,
                      b.log \cup {"Incorrect channel_record_time_us"})
          ELSE b
    IN then(set_sampling([s EXCEPT !.config.channel_record_time_us = value],
                         p, d, r))

\* write_points_per_channel(value)
write_points_per_channel(s, p, d, value, r) ==
    LET last == s.config.points_per_channel
        then(b) ==
          IF b.exc # "none"
          THEN Result([b.srv EXCEPT !.config.points_per_channel = last],
                      b.pl, b.dev, "None", "none", b.calls,
                      b.log \cup {"Incorrect points_per_channel"})
          ELSE b
    IN then(set_sampling([s EXCEPT !.config.points_per_channel = value],
                         p, d, r))

\* write_channels(value) without putting the key back
write_channels_unrestored(s, p, d, value, r) ==
    LET then(b) ==
          IF b.exc # "none"
          THEN Result(b.srv, b.pl, b.dev, "None", "none", b.calls,
                      b.log \cup {"Incorrect channels value"})
          ELSE b
    IN then(set_sampling([s EXCEPT !.config.channels =
                                       str_of_list(list_from_str(value))],
                         p, d, r))

\* write_channels(value): the key becomes str(list_from_str(str(value)))
write_channels(s, p, d, value, r) ==
    LET last == s.config.channels
        then(b) ==
          IF b.exc # "none"
          THEN Result([b.srv EXCEPT !.config.channels = last],
                      b.pl, b.dev, "None", "none", b.calls,
                      b.log \cup {"Incorrect channels value"})
          ELSE b
    IN then(set_sampling([s EXCEPT !.config.channels =
                                       str_of_list(list_from_str(value))],
                         p, d, r))

\* write_record_in_progress(value): start_recording() for a true value and
\* no record in progress, stop_recording() for a false value and a record in
\* progress, nothing otherwise.  r1, r2: (ping, status) for the stop and for
\* the start; t: time.time()
write_record_in_progress(s, p, d, value, r1, r2, t) ==
    IF value /\ ~s.record_initiated
    THEN server_start_recording(s, p, d, r1, r2, t)
    ELSE IF ~value /\ s.record_initiated
    THEN stop_recording(s, p, d, r1)
    ELSE Result(s, p, d, "None", "none", <<>>, {})

\* set_trigger(): the trigger parameters of the configuration, to the facade.
\* r: (ping, status)
server_set_trigger(s, p, d, r) ==
    LET then(o) == Result(s, o.pl, d, "None", o.exc, o.calls, o.log)
    IN then(set_trigger(p, DefaultTrigger, r))

\* apply_config(): set_sampling(), configure_channels() (Tango attribute
\* properties only), set_trigger().  r1: (ping, status, t_us); r2: (ping, status)
apply_config(s, p, d, r1, r2) ==
    LET then(a) ==
          IF a.exc # "none" THEN a
          ELSE LET done(b) ==
                     Result(b.srv, b.pl, b.dev, "None", b.exc, a.calls \o b.calls,
                            a.log \cup b.log)
               IN done(server_set_trigger(a.srv, a.pl, a.dev, r2))
    IN then(set_sampling(s, p, d, r1))

\* set_config(): a new PicoLog1000, open(), get_info(), apply_config(); any
\* exception leaves the state FAULT.  r0: (open, max); ri: (ping, info)
set_config(s, d, r0, ri, r1, r2) ==
    LET opened(o) ==
          LET informed(g) ==
                LET applied(a) ==
                      IF a.exc # "none"
                      THEN Result([a.srv EXCEPT !.state = "FAULT"], a.pl, a.dev,
                                  "False", "none", o.calls \o g.calls \o a.calls,
                                  o.log \cup a.log
                                        \cup {"Exception initiating PicoLog"})
                      ELSE Result([a.srv EXCEPT !.state = "STANDBY"], a.pl, a.dev,
                                  "True", "none", o.calls \o g.calls \o a.calls,
                                  o.log \cup a.log \cup {"has been initialized"})
                IN applied(apply_config([s EXCEPT !.state = "ON"], g.pl,
                                        device_after(d, o), r1, r2))
          IN informed(get_info(o.pl, ri))
    IN opened(open(NewPicoLog, r0))

----------------------------------------------------------------------------
(* The last operation *)

\* A call that has been made and has not run yet
Call(name, args) ==
    [name |-> name, pc |-> "call", args |-> args, ans |-> <<>>,
     ret |-> "None", exc |-> "none", calls |-> <<>>, log |-> {}]

\* A call that has returned (ret) or raised (exc); ans: the SDK's answers
\* worth keeping
Done(name, args, ans, o) ==
    [name |-> name, pc |-> "done", args |-> args, ans |-> ans,
     ret |-> o.ret, exc |-> o.exc, calls |-> o.calls, log |-> o.log]

NoOp == Call("none", <<>>)

\* A step of the world around the program, not of the program
Outside(name) == Call(name, <<>>)

----------------------------------------------------------------------------
(* The facade after a successful open() *)

OpenedPicoLog ==
    [NewPicoLog EXCEPT !.handle = "c_int16", !.opened = TRUE,
                       !.last_status = "PICO_OK"]

\* PicoPyServer.init_device, before set_config
NewServer ==
    [state |-> "UNKNOWN", record_initiated |-> FALSE, data_ready_value |-> FALSE,
     config |-> [channels |-> "[1]", points_per_channel |-> 1000,
                 channel_record_time_us |-> Wide(0, 1000000)]]

NewDevice == [unit |-> "never opened", running |-> FALSE, ready |-> FALSE]

\* no wait_result in progress; otherwise its frame: where it is (pc), its
\* timeout, use_timer, whether dt has been assigned, t1, t0 and i
NoWait ==
    [pc |-> "idle", timeout |-> 0, use_timer |-> TRUE, dt_bound |-> FALSE,
     t1 |-> 0, t0 |-> 0, i |-> 0]

----------------------------------------------------------------------------
(* TimingSpec: one set_timing call on an opened facade, for every request *)

Chan(k) == [i \in 1..k |-> i]

TimingChannels == {Chan(k) : k \in {1, 2, 3, 4, 16}}

TimingPoints ==
    {1, 506, 1000, 2024, 2025, 8096, 8097, 10000, 62500, 62501, 250000,
     333333, 333334, 1000000, 1000001, 2000000}

TimingRecordUs ==
    {Wide(0, x) : x \in {1, 999, 1000, 8095, 8096, 8097, 80970, 99999, 100000,
                         200000, 1000000, 9999990, 10000000, 10000001,
                         40000000}}
    \cup {Wide(1, 1000000)}

TimingInit ==
    /\ pl = OpenedPicoLog
    /\ srv = NewServer
    /\ dev = NewDevice
    /\ now = 1
    /\ wr = NoWait
    /\ op \in {Call("set_timing", [channels |-> c, points |-> n, record_us |-> t]) :
                c \in TimingChannels, n \in TimingPoints, t \in TimingRecordUs}

TimingSetTiming ==
    /\ op.name = "set_timing" /\ op.pc = "call"
    /\ \E ping \in Status, status \in Status :
       \E t_us \in SetIntervalAnswers(
                    requested_t_us(op.args.channels, op.args.points, op.args.record_us),
                    Len(op.args.channels)
                      * clamp_points(Len(op.args.channels), op.args.points)) :
          LET r == [ping |-> ping, status |-> status, t_us |-> t_us]
              o == set_timing(pl, op.args.channels, op.args.points, op.args.record_us, r)
          IN /\ pl' = o.pl
             /\ op' = Done("set_timing", op.args, <<>>, o)
    /\ UNCHANGED <<srv, dev, now, wr>>

TimingNext == TimingSetTiming

TimingSpec == TimingInit /\ [][TimingNext]_vars

----------------------------------------------------------------------------
(* TimesSpec: one set_timing call whose time-offset table is small enough to
   be read entry by entry *)

TimesChannels == {Chan(k) : k \in 1..4}

TimesPoints == 1..5

\* record times, in us, that every number of samples asked for divides
TimesRecordUs == {Wide(0, 18000), Wide(0, 36000)}

TimesInit ==
    /\ pl = OpenedPicoLog
    /\ srv = NewServer
    /\ dev = NewDevice
    /\ now = 1
    /\ wr = NoWait
    /\ op \in {Call("set_timing", [channels |-> c, points |-> n, record_us |-> t]) :
                c \in TimesChannels, n \in TimesPoints, t \in TimesRecordUs}

TimesNext == TimingSetTiming

TimesSpec == TimesInit /\ [][TimesNext]_vars

----------------------------------------------------------------------------
(* Spec: the facade driven directly, as the module's __main__ does *)

Init ==
    /\ pl = NewPicoLog
    /\ srv = NewServer
    /\ dev = NewDevice
    /\ now = 1
    /\ wr = NoWait
    /\ op = NoOp

\* A facade method has run to its end
FacadeStep(name, args, ans, o) ==
    /\ pl' = o.pl
    /\ dev' = device_after(dev, o)
    /\ op' = Done(name, args, ans, o)
    /\ UNCHANGED <<srv, now, wr>>

\* the answers a method does not get to ask for are left at PICO_OK
Unasked(asked, status) == asked \/ status = "PICO_OK"

SpecChannels == {Chan(4)}

SpecPoints == {1000}

SpecRecordUs == {Wide(0, 1000000)}

Open ==
    \E o \in Status, m \in Status :
       /\ Unasked(pico_ok(o), m)
       /\ LET r == [open |-> o, max |-> m]
          IN FacadeStep("open", <<>>, <<>>, open(pl, r))

Close ==
    \E st \in Status :
       /\ Unasked(pl.handle # "None", st)
       /\ LET r == [status |-> st]
          IN FacadeStep("close", <<>>, r, close(pl, r))

SetTiming ==
    \E c \in SpecChannels, n \in SpecPoints, t \in SpecRecordUs :
    \E ping \in Status, status \in Status :
    \E t_us \in SetIntervalAnswers(requested_t_us(c, n, t),
                                   Len(c) * clamp_points(Len(c), n)) :
       /\ Unasked(assert_open(pl, ping).exc = "none", status)
       /\ LET r == [ping |-> ping, status |-> status, t_us |-> t_us]
              args == [channels |-> c, points |-> n, record_us |-> t]
          IN FacadeStep("set_timing", args, <<>>, set_timing(pl, c, n, t, r))

StartRecording ==
    \E ping \in Status, status \in Status :
       /\ Unasked(assert_open(pl, ping).exc = "none", status)
       /\ LET r == [ping |-> ping, status |-> status]
          IN FacadeStep("start_recording", <<>>, <<>>, start_recording(pl, r, now))

Ready ==
    \E ping \in Status, status \in Status, rdy \in ReadyAnswers(dev) :
       /\ Unasked(assert_open(pl, ping).exc = "none", status)
       /\ LET r == [ping |-> ping, status |-> status, ready |-> rdy]
          IN FacadeStep("ready", <<>>, <<>>, ready(pl, r, now))

Read ==
    \E ping \in Status, status \in Status, rdy \in ReadyAnswers(dev) :
    \E gv \in Status, v \in ValuesAnswers(pl.points) :
       /\ Unasked(assert_open(pl, ping).exc = "none", status)
       /\ LET r == [ping |-> ping, status |-> status, ready |-> rdy,
                    gv |-> gv, n |-> v.n, overflow |-> v.overflow,
                    trigger |-> v.trigger, samples |-> v.samples]
              asked == ready(pl, r, now).exc = "none" /\ pl.data # NoBuffer
          IN /\ Unasked(asked, gv)
             /\ (asked /\ pico_ok(gv)) \/ v.samples = "A"
             /\ FacadeStep("read", [wait |-> 0], v, read_values(pl, r, now))

Stop ==
    \E ping \in Status, status \in Status :
       /\ Unasked(assert_open(pl, ping).exc = "none", status)
       /\ LET r == [ping |-> ping, status |-> status]
          IN FacadeStep("stop", <<>>, <<>>, stop(pl, r))

\* time passes between calls
Tick ==
    /\ now < MaxTime
    /\ now' = now + 1
    /\ op' = Outside("tick")
    /\ UNCHANGED <<pl, srv, dev, wr>>

\* the capture the logger is running finishes
DeviceCompletes ==
    /\ dev.running /\ ~dev.ready
    /\ dev' = [dev EXCEPT !.ready = TRUE]
    /\ op' = Outside("capture finished")
    /\ UNCHANGED <<pl, srv, now, wr>>

Next ==
    \/ Open
    \/ Close
    \/ SetTiming
    \/ StartRecording
    \/ Ready
    \/ Read
    \/ Stop
    \/ Tick
    \/ DeviceCompletes

Spec == Init /\ [][Next]_vars

----------------------------------------------------------------------------
(* SrvSpec: the device server, from init_device on, driven by its commands *)

SrvInit ==
    /\ pl = NewPicoLog
    /\ srv = NewServer
    /\ dev = NewDevice
    /\ now = 1
    /\ wr = NoWait
    /\ op = Call("PicoPyServer.set_config", <<>>)

\* A method of the device server has run to its end
ServerStep(name, args, ans, b) ==
    /\ srv' = b.srv
    /\ pl' = b.pl
    /\ dev' = b.dev
    /\ op' = Done(name, args, ans, b)
    /\ UNCHANGED <<now, wr>>

\* set_config has run
Configured == srv.state # "UNKNOWN"

AllOk == [ping |-> "PICO_OK", status |-> "PICO_OK"]

\* the answers to assert_open's ping and to the one SDK call after it
CallAnswers(p) ==
    UNION {{[ping |-> a, status |-> b] :
              b \in {x \in Status : Unasked(assert_open(p, a).exc = "none", x)}} :
           a \in Status}

\* a readiness query is answered in full
Answered(p, r) == assert_open(p, r.ping).exc = "none" /\ pico_ok(r.status)

\* the least the ready flag can be
LeastReady(d) == CHOOSE x \in ReadyAnswers(d) : \A y \in ReadyAnswers(d) : x <= y

\* the answers to a readiness query: the ping, the status, the ready flag
QueryAnswers(p, d) ==
    UNION {{[ping |-> r.ping, status |-> r.status, ready |-> c] :
              c \in {x \in ReadyAnswers(d) : Answered(p, r) \/ x = LeastReady(d)}} :
           r \in CallAnswers(p)}

NoQuery == [ping |-> "PICO_OK", status |-> "PICO_OK", ready |-> 0]

\* what pl1000GetValues answers after the readiness query q of read()
ValuesAnswered(p, q) ==
    UNION {{[gv |-> g, n |-> v.n, overflow |-> v.overflow,
             trigger |-> v.trigger, samples |-> v.samples] :
              v \in {x \in ValuesAnswers(p.points) :
                       (Answered(p, q) /\ pico_ok(g)) \/ x.samples = "A"}} :
           g \in {x \in Status : Unasked(Answered(p, q), x)}}

\* the answers to the facade's read(): those of its readiness query, the
\* status of pl1000GetValues and what it delivers
ReadAnswers(p, d) ==
    UNION {{[ping |-> q.ping, status |-> q.status, ready |-> q.ready,
             gv |-> v.gv, n |-> v.n, overflow |-> v.overflow,
             trigger |-> v.trigger, samples |-> v.samples] :
              v \in ValuesAnswered(p, q)} :
           q \in QueryAnswers(p, d)}

\* the answers nobody asked for
NoAnswers(p) ==
    [ping |-> "PICO_OK", status |-> "PICO_OK", ready |-> 0, gv |-> "PICO_OK",
     n |-> p.points, overflow |-> 0, trigger |-> 0, samples |-> "A"]

SrvSetConfig ==
    /\ op.name = "PicoPyServer.set_config" /\ op.pc = "call"
    /\ \E o \in Status, m \in Status :
       /\ Unasked(pico_ok(o), m)
       /\ LET r0 == [open |-> o, max |-> m]
              p0 == open(NewPicoLog, r0).pl
          IN \E a \in CallAnswers(p0) :
             \E b \in IF ping_ok(a.ping) /\ pico_ok(a.status) /\ p0.opened
                      THEN CallAnswers(p0) ELSE {AllOk} :
                LET r1 == [ping |-> a.ping, status |-> a.status,
                           t_us |-> c_uint32(srv.config.channel_record_time_us)]
                    ri == [ping |-> "PICO_OK", info |-> "PICO_OK"]
                IN ServerStep("PicoPyServer.set_config", <<>>, <<>>,
                              set_config(srv, dev, r0, ri, r1, b))

SrvStart ==
    /\ Configured
    /\ \E value \in {0, 1} :
       \E r \in IF value > 0 /\ srv.record_initiated THEN {AllOk}
                ELSE CallAnswers(pl) :
          ServerStep("PicoPyServer._start", [value |-> value], <<>>,
                     _start(srv, pl, dev, value, r, now))

SrvStartRecording ==
    /\ Configured
    /\ \E r1 \in CallAnswers(pl) :
       \E r2 \in CallAnswers(stop(pl, r1).pl) :
          ServerStep("PicoPyServer.start_recording", <<>>, <<>>,
                     server_start_recording(srv, pl, dev, r1, r2, now))

SrvStopRecording ==
    /\ Configured
    /\ \E r \in CallAnswers(pl) :
          ServerStep("PicoPyServer.stop_recording", <<>>, <<>>,
                     stop_recording(srv, pl, dev, r))

SrvRead ==
    /\ Configured
    /\ \E r1 \in IF srv.record_initiated THEN QueryAnswers(pl, dev)
                 ELSE {NoQuery} :
       \E r2 \in IF srv.record_initiated /\ ready(pl, r1, now).ret = "1"
                 THEN ReadAnswers(pl, dev) ELSE {NoAnswers(pl)} :
          ServerStep("PicoPyServer.read", <<>>, [q |-> r1, v |-> r2],
                     server_read(srv, pl, dev, r1, r2, now))

\* the event loop's pass; the read it starts gets the answers of the loop's
\* own query once more
SrvLooping ==
    /\ Configured
    /\ \E r0 \in IF srv.record_initiated THEN QueryAnswers(pl, dev)
                 ELSE {NoQuery} :
       \E r2 \in IF srv.record_initiated /\ ready(pl, r0, now).ret = "1"
                 THEN ReadAnswers(pl, dev) ELSE {NoAnswers(pl)} :
          ServerStep("looping", <<>>, [q |-> r0, v |-> r2],
                     looping(srv, pl, dev, r0, r0, r2, now))

SrvNext ==
    \/ SrvSetConfig
    \/ SrvStart
    \/ SrvStartRecording
    \/ SrvStopRecording
    \/ SrvRead
    \/ SrvLooping
    \/ Tick
    \/ DeviceCompletes

SrvSpec == SrvInit /\ [][SrvNext]_vars

----------------------------------------------------------------------------
(* CfgSpec: the device server's configuration: set_config, then the
   apply_config command and the writes of the three timing attributes *)

CfgPoints == {500, 2000000, 0}

CfgRecordUs == {Wide(0, 100), Wide(0, 2000000)}

CfgChannels == {"[1]", "[1,2,3,4]", "channels"}

\* what pl1000SetInterval hands back for the request made of a configuration
TimesAnswered(c) ==
    LET channels == list_from_str(c.channels)
        t_us == requested_t_us(channels, c.points_per_channel,
                               c.channel_record_time_us)
        total == Len(channels) * clamp_points(Len(channels), c.points_per_channel)
    IN IF total = 0 THEN {t_us} ELSE SetIntervalAnswers(t_us, total)

\* the answers to set_sampling(): the ping, pl1000SetInterval's status and
\* the record time it hands back
SamplingAnswers(p, c) ==
    UNION {{[ping |-> a.ping, status |-> a.status, t_us |-> t] :
              t \in {x \in TimesAnswered(c) :
                       Answered(p, a) \/ \A y \in TimesAnswered(c) : x >= y}} :
           a \in CallAnswers(p)}

\* the apply_config command; an exception of it goes to the caller
SrvApplyConfig ==
    /\ Configured
    /\ \E a \in SamplingAnswers(pl, srv.config) :
       \E b \in IF Answered(pl, a) THEN CallAnswers(pl) ELSE {AllOk} :
          ServerStep("PicoPyServer.apply_config", <<>>, <<>>,
                     apply_config(srv, pl, dev, a, b))

SrvWriteRecordTime ==
    /\ Configured
    /\ \E value \in CfgRecordUs :
       \E r \in SamplingAnswers(pl, [srv.config EXCEPT
                                       !.channel_record_time_us = value]) :
          ServerStep("PicoPyServer.write_channel_record_time_us",
                     [value |-> value], <<>>,
                     write_channel_record_time_us(srv, pl, dev, value, r))

SrvWritePoints ==
    /\ Configured
    /\ \E value \in CfgPoints :
       \E r \in SamplingAnswers(pl, [srv.config EXCEPT
                                       !.points_per_channel = value]) :
          ServerStep("PicoPyServer.write_points_per_channel",
                     [value |-> value], <<>>,
                     write_points_per_channel(srv, pl, dev, value, r))

SrvWriteChannels ==
    /\ Configured
    /\ \E value \in CfgChannels :
       \E r \in SamplingAnswers(pl, [srv.config EXCEPT
                                       !.channels = str_of_list(list_from_str(value))]) :
          ServerStep("PicoPyServer.write_channels", [value |-> value], <<>>,
                     write_channels(srv, pl, dev, value, r))

CfgNext ==
    \/ SrvSetConfig
    \/ SrvApplyConfig
    \/ SrvWriteRecordTime
    \/ SrvWritePoints
    \/ SrvWriteChannels

CfgSpec == SrvInit /\ [][CfgNext]_vars

----------------------------------------------------------------------------
(* LifeSpec: the device server driven by its commands, its attribute writes
   and its event loop in any order, every device call free to fail *)

\* the values written are those of the configuration in force: the write
\* replaces the buffer and leaves the timing as it is
LifePoints == {NewServer.config.points_per_channel}

LifeRecordUs == {NewServer.config.channel_record_time_us}

\* the list in force, a text that is no list, an empty list
LifeChannels == {"[1]", "channels", "[]"}

LifeSetSampling ==
    /\ Configured
    /\ \E r \in SamplingAnswers(pl, srv.config) :
          ServerStep("PicoPyServer.set_sampling", <<>>, <<>>,
                     set_sampling(srv, pl, dev, r))

LifeWriteRecordInProgress ==
    /\ Configured
    /\ \E value \in BOOLEAN :
       \E r1 \in IF value = srv.record_initiated THEN {AllOk} ELSE CallAnswers(pl) :
       \E r2 \in IF value /\ ~srv.record_initiated
                 THEN CallAnswers(stop(pl, r1).pl) ELSE {AllOk} :
          ServerStep("PicoPyServer.write_record_in_progress", [value |-> value],
                     <<>>,
                     write_record_in_progress(srv, pl, dev, value, r1, r2, now))

LifeWriteRecordTime ==
    /\ Configured
    /\ \E value \in LifeRecordUs :
       \E r \in SamplingAnswers(pl, [srv.config EXCEPT
                                       !.channel_record_time_us = value]) :
          ServerStep("PicoPyServer.write_channel_record_time_us",
                     [value |-> value], <<>>,
                     write_channel_record_time_us(srv, pl, dev, value, r))

LifeWritePoints ==
    /\ Configured
    /\ \E value \in LifePoints :
       \E r \in SamplingAnswers(pl, [srv.config EXCEPT
                                       !.points_per_channel = value]) :
          ServerStep("PicoPyServer.write_points_per_channel",
                     [value |-> value], <<>>,
                     write_points_per_channel(srv, pl, dev, value, r))

LifeWriteChannels ==
    /\ Configured
    /\ \E value \in LifeChannels :
       \E r \in SamplingAnswers(pl, [srv.config EXCEPT
                                       !.channels = str_of_list(list_from_str(value))]) :
          ServerStep("PicoPyServer.write_channels", [value |-> value], <<>>,
                     write_channels(srv, pl, dev, value, r))

LifeNext ==
    \/ SrvSetConfig
    \/ SrvStart
    \/ SrvStartRecording
    \/ SrvStopRecording
    \/ SrvRead
    \/ SrvLooping
    \/ DeviceCompletes
    \/ LifeSetSampling
    \/ LifeWriteRecordInProgress
    \/ LifeWriteRecordTime
    \/ LifeWritePoints
    \/ LifeWriteChannels

LifeSpec == SrvInit /\ [][LifeNext]_vars

----------------------------------------------------------------------------
(* WaitSpec: one wait_result call, a step for each sleep and each poll *)

MaxClock == 6

WaitTimeouts == {0, 1, 2}

\* the facade with a buffer and a capture started at time 1
RecordingPicoLog ==
    start_recording(
        set_timing(OpenedPicoLog, Chan(1), 1000, Wide(0, 1000000),
                   [ping |-> "PICO_OK", status |-> "PICO_OK", t_us |-> 1000000]).pl,
        AllOk, 1).pl

WaitInit ==
    /\ \/ pl = RecordingPicoLog /\ dev = [unit |-> "open", running |-> TRUE, ready |-> FALSE]
       \/ pl = OpenedPicoLog /\ dev = [unit |-> "open", running |-> FALSE, ready |-> FALSE]
       \/ pl = NewPicoLog /\ dev = NewDevice
    /\ srv = NewServer
    /\ now = 1
    /\ wr = NoWait
    /\ op = NoOp

WaitActive == {"probe", "loop", "sleep"}

\* wait_result(timeout, use_timer) up to its first sleep or poll
WaitCall ==
    /\ wr.pc = "idle"
    /\ \E timeout \in WaitTimeouts, ut \in {"None", "True", "False"} :
       /\ now + dt + timeout < MaxClock
       /\ op' = [Call("wait_result", [timeout |-> timeout, use_timer |-> ut])
                   EXCEPT !.ans = NoQuery]
       /\ wr' = IF ut = "None"
                THEN [NoWait EXCEPT !.pc = "probe", !.timeout = timeout,
                                    !.dt_bound = TRUE, !.t1 = now]
                ELSE [NoWait EXCEPT !.pc = "loop", !.timeout = timeout,
                                    !.use_timer = (ut = "True"), !.t0 = now]
    /\ UNCHANGED <<pl, srv, dev, now>>

\* time.sleep(dt) returns with the clock dt later, or where it was
WaitProbe ==
    /\ wr.pc = "probe"
    /\ \E adv \in {0, dt} :
       /\ now' = now + adv
       /\ wr' = [wr EXCEPT !.pc = "loop",
                           !.use_timer = ~timer_suspect(wr.t1, now + adv),
                           !.t0 = now + adv]
    /\ UNCHANGED <<pl, srv, dev, op>>

WaitDone(o) == Done("wait_result", op.args, op.ans, o)

\* one pass of `while not self.ready()`, up to the sleep in it, and the final
\* `return self.ready()`.  r, r2: (ping, status, ready) for the loop's query
\* and for the final one
WaitLoopWith(r, r2) ==
    /\ wr.pc = "loop"
    /\ LET o == ready(pl, r, now)
           o2 == ready(o.pl, r2, now)
       IN IF o.exc # "none"
          THEN /\ pl' = o.pl
               /\ wr' = [wr EXCEPT !.pc = "done"]
               /\ op' = [WaitDone(o) EXCEPT !.ans = r]
          ELSE IF o.ret = "1"
          THEN /\ pl' = o2.pl
               /\ wr' = [wr EXCEPT !.pc = "done"]
               /\ op' = [WaitDone(o2) EXCEPT !.ans = r]
          ELSE IF ~wr.use_timer /\ ~wr.dt_bound
          THEN /\ pl' = o.pl
               /\ wr' = [wr EXCEPT !.pc = "done"]
               /\ op' = [WaitDone(Outcome(o.pl, "None", "UnboundLocalError",
                                          o.calls, {}))
                           EXCEPT !.ans = r]
          ELSE IF ~wr.use_timer
          THEN /\ pl' = o.pl
               /\ wr' = [wr EXCEPT !.pc = "sleep"]
               /\ op' = [op EXCEPT !.ans = r]
          ELSE IF timed_out(now, wr.t0, wr.timeout)
          THEN /\ pl' = o.pl
               /\ wr' = [wr EXCEPT !.pc = "done"]
               /\ op' = [WaitDone(Outcome(o.pl, "False", "none", o.calls, {}))
                           EXCEPT !.ans = r]
          ELSE /\ pl' = o.pl
               /\ wr' = wr
               /\ op' = [op EXCEPT !.ans = r]
    /\ UNCHANGED <<srv, dev, now>>

WaitLoop ==
    \E r \in QueryAnswers(pl, dev) :
    \E r2 \in IF ready(pl, r, now).ret = "1"
              THEN QueryAnswers(ready(pl, r, now).pl, dev) ELSE {NoQuery} :
       WaitLoopWith(r, r2)

\* the pass whose query finds the logger not ready
WaitLoopNotReady == WaitLoopWith(NoQuery, NoQuery)

\* the sleep of a pass without the timer returns; i += 1 and both tests
WaitSleep ==
    /\ wr.pc = "sleep"
    /\ \E adv \in {x \in {0, dt} : now + x <= MaxClock} :
       /\ now' = now + adv
       /\ IF counted_out(wr.i + 1, wr.timeout)
             \/ timed_out(now + adv, wr.t0, wr.timeout)
          THEN /\ wr' = [wr EXCEPT !.pc = "done", !.i = wr.i + 1]
               /\ op' = WaitDone(Outcome(pl, "False", "none", <<>>, {}))
          ELSE /\ wr' = [wr EXCEPT !.pc = "loop", !.i = wr.i + 1]
               /\ op' = op
    /\ UNCHANGED <<pl, srv, dev>>

\* the clock moves on before the call and between two polls
WaitTick ==
    /\ wr.pc \in {"idle", "loop"}
    /\ now < MaxClock
    /\ now' = now + 1
    /\ UNCHANGED <<pl, srv, dev, wr, op>>

WaitNext ==
    \/ WaitCall
    \/ WaitProbe
    \/ WaitLoop
    \/ WaitSleep
    \/ WaitTick

\* the thread runs, its sleeps return and the clock moves on; nothing makes
\* the logger answer
WaitSpec ==
    /\ WaitInit /\ [][WaitNext]_vars
    /\ WF_vars(WaitProbe) /\ WF_vars(WaitSleep) /\ WF_vars(WaitTick)
    /\ WF_vars(WaitLoopNotReady)

----------------------------------------------------------------------------
(* TrigSpec: set_trigger calls, one after another, on a facade that is open
   or has never been opened *)

\* the eight arguments of a set_trigger call
TrigArgs ==
    {[enabled |-> 1, channel |-> [int |-> 2], edge |-> 1, threshold |-> 1024,
      hysteresis |-> 50, delay_percent |-> -50, auto_trigger |-> 1, auto_ms |-> 500],
     [enabled |-> 1, channel |-> [str |-> "PL1000_CHANNEL_2"], edge |-> 0,
      threshold |-> 2048, hysteresis |-> 100, delay_percent |-> 10,
      auto_trigger |-> 0, auto_ms |-> 1000],
     [enabled |-> 0, channel |-> [str |-> "PL1000_CHANNEL_1"], edge |-> 1,
      threshold |-> 4095, hysteresis |-> 0, delay_percent |-> 0,
      auto_trigger |-> 1, auto_ms |-> 0],
     [enabled |-> 1, channel |-> [str |-> "PL1000_CHANNEL_17"], edge |-> 0,
      threshold |-> 100, hysteresis |-> 10, delay_percent |-> 50,
      auto_trigger |-> 0, auto_ms |-> 10],
     DefaultTrigger}

TrigInit ==
    /\ \/ pl = OpenedPicoLog /\ dev = [unit |-> "open", running |-> FALSE, ready |-> FALSE]
       \/ pl = NewPicoLog /\ dev = NewDevice
    /\ srv = NewServer
    /\ now = 1
    /\ wr = NoWait
    /\ op \in {Call("set_trigger", a) : a \in TrigArgs}

TrigSetTrigger ==
    /\ op.name = "set_trigger" /\ op.pc = "call"
    /\ \E r \in CallAnswers(pl) :
          /\ pl' = set_trigger(pl, op.args, r).pl
          /\ op' = Done("set_trigger", op.args, r, set_trigger(pl, op.args, r))
    /\ UNCHANGED <<srv, dev, now, wr>>

\* the next call is made
TrigCall ==
    /\ op.pc = "done"
    /\ op' \in {Call("set_trigger", a) : a \in TrigArgs}
    /\ UNCHANGED <<pl, srv, dev, now, wr>>

TrigNext ==
    \/ TrigSetTrigger
    \/ TrigCall

TrigSpec == TrigInit /\ [][TrigNext]_vars

----------------------------------------------------------------------------
(* FrozenSpec: wait_result calls on a host whose clock stands still:
   time.time() gives the same value every time and the sleeps do not show *)

FrozenProbe == WaitProbe /\ now' = now

FrozenSleep == WaitSleep /\ now' = now

FrozenNext ==
    \/ WaitCall
    \/ FrozenProbe
    \/ WaitLoop
    \/ FrozenSleep

\* the thread runs and its sleeps return; nothing makes the logger answer
FrozenSpec ==
    /\ WaitInit /\ [][FrozenNext]_vars
    /\ WF_vars(FrozenProbe) /\ WF_vars(FrozenSleep)
    /\ WF_vars(WaitLoopNotReady)

----------------------------------------------------------------------------
(* OpsSpec: the facade's operations in any order, set_trigger among them, with
   the clock at rest *)

\* the triggers asked for: the default one and one on a channel given by name
OpsTrigArgs == {a \in TrigArgs : a.delay_percent = 10}

SetTrigger ==
    \E a \in OpsTrigArgs, r \in CallAnswers(pl) :
       FacadeStep("set_trigger", a, <<>>, set_trigger(pl, a, r))

OpsNext ==
    \/ Open
    \/ SetTiming
    \/ SetTrigger
    \/ StartRecording
    \/ Ready
    \/ Read
    \/ Stop

OpsSpec == Init /\ [][OpsNext]_vars

----------------------------------------------------------------------------
(* ReconSpec: reconnect() called now and then on a facade that was opened,
   between readiness queries that may lose the unit, while the clock runs.
   Nothing in the program sets reconnect_enabled or reconnect_timeout: they
   start as the caller has assigned them. *)

\* time.time() at the start, later than the 1.0 that __init__ leaves in
\* reconnect_timeout
ReconStart == 2

ReconMaxTime == 6

\* reconnect() calls that count down, at most
MaxReconnects == 4

OpenDevice == [unit |-> "open", running |-> FALSE, ready |-> FALSE]

\* the facade after open() and set_timing([1, 2, 3, 4], 1000, 1000000)
TimedPicoLog ==
    set_timing(OpenedPicoLog, Chan(4), 1000, Wide(0, 1000000),
               [ping |-> "PICO_OK", status |-> "PICO_OK", t_us |-> 1000000]).pl

ReconInit ==
    /\ \E P \in {OpenedPicoLog, TimedPicoLog} :
       \E e \in BOOLEAN, d \in {NewPicoLog.reconnect_timeout, ReconStart + 2} :
          pl = [P EXCEPT !.reconnect_enabled = e, !.reconnect_timeout = d]
    /\ srv = NewServer
    /\ dev = OpenDevice
    /\ now = ReconStart
    /\ wr = NoWait
    /\ op = NoOp

\* the answers of an attempt that meets no refusal
ReconAllOk(p) ==
    [stop |-> "PICO_OK", close |-> "PICO_OK",
     open |-> [open |-> "PICO_OK", max |-> "PICO_OK"],
     timing |-> [ping |-> "PICO_OK", status |-> "PICO_OK",
                 t_us |-> IF p.channels = <<>> THEN 0
                          ELSE requested_t_us(p.channels, p.points,
                                              Wide(0, p.record_us))],
     trigger |-> AllOk]

\* the answers to the set_timing call of an attempt on the facade q, when
\* the call gets as far as the SDK
ReconTimingAnswers(q) ==
    UNION {{[ping |-> c.ping, status |-> c.status, t_us |-> u] :
              u \in {x \in SetIntervalAnswers(ReconAllOk(q).timing.t_us,
                                              Len(q.channels) * q.points) :
                       Answered(q, c) \/ x = ReconAllOk(q).timing.t_us}} :
           c \in CallAnswers(q)}

\* the answers the SDK can give to the calls of reconnect() at time t: every
\* answer of a call that is made, PICO_OK written for a call that is not
ReconAnswers(p, t) ==
    LET ok == ReconAllOk(p) IN
    IF reconnect(p, ok, t).calls = <<>> THEN {ok}
    ELSE
    UNION {UNION {
      LET o == [open |-> oo, max |-> om]
          opened == pico_ok(oo) /\ pico_ok(om)
          q == [OpenedPicoLog EXCEPT !.channels = p.channels, !.points = p.points,
                                     !.record_us = p.record_us]
          timings == IF opened /\ p.channels # <<>> THEN ReconTimingAnswers(q)
                     ELSE {ok.timing}
      IN UNION {{[stop |-> st, close |-> cl, open |-> o, timing |-> tm,
                  trigger |-> tr] :
                   st \in {"PICO_OK", "PICO_NOT_FOUND"},
                   cl \in {"PICO_OK", "PICO_NOT_FOUND"},
                   tr \in IF opened /\ p.channels # <<>> /\ Answered(q, tm)
                          THEN CallAnswers(q) ELSE {AllOk}} :
                tm \in timings} :
      om \in {x \in Status : Unasked(pico_ok(oo), x)}} :
      oo \in Status}

\* the logger after the SDK calls of a reconnect() call answered r
recon_device(d, p, r, o) ==
    IF o.calls = <<>> THEN d
    ELSE LET d1 == device_calls(d, <<"Stop">>, ~pico_ok(r.stop))
             d2 == device_calls(d1, <<"CloseUnit">>, ~pico_ok(r.close))
         IN device_after(d2, open(p, r.open))

Reconnect ==
    /\ pl.reconnect_count > 3 - MaxReconnects
    /\ \E r \in ReconAnswers(pl, now) :
          LET then(out) ==
                /\ pl' = out.pl
                /\ dev' = recon_device(dev, pl, r, out)
                /\ op' = Done("reconnect", <<>>, <<>>, out)
          IN then(reconnect(pl, r, now))
    /\ UNCHANGED <<srv, now, wr>>

ReconTick ==
    /\ now < ReconMaxTime
    /\ now' = now + 1
    /\ op' = Outside("tick")
    /\ UNCHANGED <<pl, srv, dev, wr>>

ReconNext ==
    \/ Reconnect
    \/ Ready
    \/ ReconTick

ReconSpec == ReconInit /\ [][ReconNext]_vars

----------------------------------------------------------------------------
(* SeqSpec: set_timing calls one after another on an opened facade, each
   with its own request *)

\* the channel lists asked for, the empty list among them
SeqChannels == {<<>>, Chan(1), Chan(3), Chan(16)}

SeqPoints == {1, 62500, 62501, 2000000}

SeqRecordUs == {Wide(0, 1), Wide(1, 1000000)}

SeqInit ==
    /\ \/ pl = OpenedPicoLog /\ dev = OpenDevice
       \/ pl = NewPicoLog /\ dev = NewDevice
    /\ srv = NewServer
    /\ now = 1
    /\ wr = NoWait
    /\ op = NoOp

SeqSetTiming ==
    \E c \in SeqChannels, n \in SeqPoints, t \in SeqRecordUs :
    \E a \in IF c = <<>> THEN {AllOk} ELSE CallAnswers(pl) :
    \E t_us \in IF c = <<>> THEN {requested_t_us(c, n, t)}
                ELSE {x \in SetIntervalAnswers(requested_t_us(c, n, t),
                                               Len(c) * clamp_points(Len(c), n)) :
                        Answered(pl, a) \/ x = requested_t_us(c, n, t)} :
       LET r == [ping |-> a.ping, status |-> a.status, t_us |-> t_us]
           args == [channels |-> c, points |-> n, record_us |-> t]
       IN FacadeStep("set_timing", args, <<>>, set_timing(pl, c, n, t, r))

SeqNext == SeqSetTiming

SeqSpec == SeqInit /\ [][SeqNext]_vars

----------------------------------------------------------------------------
(* The timing resolver: what a finished set_timing call was asked *)

SetTimingDone == op.name = "set_timing" /\ op.pc = "done"

ReqNc == Len(op.args.channels)

ReqPoints == op.args.points

ReqUs == op.args.record_us

\* total points once the points are clamped, and the floor of its bracket,
\* as the specification words them
ReqTotal ==
    IF ReqNc * ReqPoints > 1000000 THEN ReqNc * (1000000 \div ReqNc)
    ELSE ReqNc * ReqPoints

ReqFloor == IF ReqTotal <= 8096 THEN 1 ELSE 10

ReqBelowFloor == ReqUs.hi = 0 /\ ReqUs.lo < ReqTotal * ReqFloor

\* the device was open, answered the ping and pl1000SetInterval with success
\* and handed back the record time it was given
DeviceAccepted ==
    /\ op.calls = <<"PingUnit", "SetInterval">>
    /\ pl.last_status = "PICO_OK"
    /\ pl.record_us = requested_t_us(op.args.channels, ReqPoints, ReqUs)

\* C1 (as stated): for every request with 1..16 channels, at most 1,000,000
\* total points and an interval not below the floor, set_timing on an open
\* device that accepts the values returns True, stores the requested points
\* and record_us, and sets sampling to 0.001 * record_us / points.
C1_ValidRequestHonoured ==
    (/\ SetTimingDone
     /\ ReqNc \in 1..16
     /\ ReqNc * ReqPoints <= 1000000
     /\ ~ReqBelowFloor
     /\ DeviceAccepted)
    => /\ op.exc = "none"
       /\ op.ret = "True"
       /\ pl.points = ReqPoints
       /\ Wide(0, pl.record_us) = ReqUs
       /\ pl.sampling = [num |-> ReqUs.lo, den |-> 1000 * ReqPoints]

\* C1, for the requests whose record_us fits the 32 bits the device is
\* handed: the statement above holds.
C1_ValidRequestHonoured32 ==
    (/\ SetTimingDone
     /\ ReqNc \in 1..16
     /\ ReqNc * ReqPoints <= 1000000
     /\ ~ReqBelowFloor
     /\ ReqUs.hi = 0
     /\ DeviceAccepted)
    => /\ op.exc = "none"
       /\ op.ret = "True"
       /\ pl.points = ReqPoints
       /\ pl.record_us = ReqUs.lo
       /\ pl.sampling = [num |-> ReqUs.lo, den |-> 1000 * ReqPoints]

C1_Witness32 ==
    /\ SetTimingDone /\ DeviceAccepted
    /\ ReqNc = 4 /\ ReqPoints = 250000 /\ ReqUs = Wide(0, 10000000)
    /\ op.ret = "True" /\ pl.record_us = 10000000

\* C2: a request with more than 1,000,000 total points, on an open device
\* that accepts what it is given, stores 1,000,000 \div len(channels) points
\* and returns False without raising.
C2_TooManyPointsClamped ==
    (/\ SetTimingDone
     /\ ReqNc \in 1..16
     /\ ReqNc * ReqPoints > 1000000
     /\ DeviceAccepted)
    => /\ op.exc = "none"
       /\ op.ret = "False"
       /\ pl.points = 1000000 \div ReqNc

C2_Witness ==
    /\ SetTimingDone /\ DeviceAccepted
    /\ ReqNc = 3 /\ ReqPoints = 333334
    /\ pl.points = 333333 /\ op.ret = "False" /\ op.exc = "none"

\* C3: a request whose interval is below the floor of its bracket (1 us up
\* to 8096 total points, 10 us above), on an open device that accepts what it
\* is given, stores record_us = total_points * floor and returns False; a
\* request exactly at the floor is not corrected.
C3_TooFastCorrected ==
    (/\ SetTimingDone
     /\ ReqNc \in 1..16
     /\ DeviceAccepted)
    => /\ ReqBelowFloor =>
            /\ op.exc = "none"
            /\ op.ret = "False"
            /\ pl.record_us = ReqTotal * ReqFloor
            /\ "Requested recording is too fast" \in op.log
       /\ ReqUs = Wide(0, ReqTotal * ReqFloor) =>
            /\ op.exc = "none"
            /\ pl.record_us = ReqUs.lo
            /\ "Requested recording is too fast" \notin op.log
            /\ "channel record time has been corrected" \notin op.log
            /\ (ReqNc * ReqPoints <= 1000000 => op.ret = "True")

\* the example of the specification: 4 channels, 10000 points, 200000 us
C3_Witness ==
    /\ SetTimingDone /\ DeviceAccepted
    /\ ReqNc = 4 /\ ReqPoints = 10000 /\ ReqUs = Wide(0, 200000)
    /\ pl.record_us = 400000 /\ op.ret = "False"
    /\ pl.sampling = [num |-> 400000, den |-> 1000 * 10000]

\* a request exactly at the 10 us floor, just above the bracket's threshold
C3_WitnessAtFloor ==
    /\ SetTimingDone /\ DeviceAccepted
    /\ ReqNc = 1 /\ ReqPoints = 8097 /\ ReqUs = Wide(0, 80970)
    /\ pl.record_us = 80970 /\ op.ret = "True"

----------------------------------------------------------------------------
(* The facade's read() and close() *)

\* a facade read() has just run and its readiness query answered "not ready"
ReadNotReady(o) ==
    /\ o.name = "read" /\ o.pc = "done"
    /\ "read - device is not ready" \in o.log

\* C5 (as stated): when ready() returns false at the time of the call, the
\* facade's read() does not call pl1000GetValues and leaves data, overflow,
\* trigger and read_time unchanged.
C5_ReadOnlyWhenReady ==
    [][ReadNotReady(op') =>
          /\ \A i \in 1..Len(op'.calls) : op'.calls[i] # "GetValues"
          /\ pl'.data = pl.data
          /\ pl'.overflow = pl.overflow
          /\ pl'.trigger = pl.trigger
          /\ pl'.read_time = pl.read_time]_vars

\* C5 (amended): when ready() returns false, read() logs a warning and goes
\* on: with a buffer allocated it calls pl1000GetValues once, and when that
\* call answers PICO_OK it overwrites data, overflow, trigger and read_time;
\* the four are left unchanged only when read() raises.
C5_ReadWarnsAndReads ==
    [][ReadNotReady(op') =>
          /\ pl.data # NoBuffer =>
                op'.calls = <<"PingUnit", "Ready", "GetValues">>
          /\ pl.data = NoBuffer =>
                op'.calls = <<"PingUnit", "Ready">> /\ op'.exc = "AttributeError"
          /\ op'.exc = "none" =>
                /\ pl'.read_time = now
                /\ pl'.data.samples = op'.ans.samples
                /\ pl'.data.n = op'.ans.n
                /\ pl'.overflow = op'.ans.overflow
                /\ pl'.trigger = op'.ans.trigger
          /\ op'.exc # "none" =>
                /\ pl'.data = pl.data
                /\ pl'.overflow = pl.overflow
                /\ pl'.trigger = pl.trigger
                /\ pl'.read_time = pl.read_time]_vars

\* a read on a device that is not ready has filled the buffer
C5_Witness ==
    /\ ReadNotReady(op)
    /\ op.exc = "none"
    /\ op.calls = <<"PingUnit", "Ready", "GetValues">>
    /\ dev.running /\ ~dev.ready
    /\ pl.data.samples = "B" /\ pl.overflow = 1 /\ pl.trigger = 7
    /\ pl.read_time = now

\* C7 (as stated): close() on a session that has already been closed records
\* the device's status in last_status and does not raise, whatever the status.
C7_SecondCloseNeverRaises ==
    [][(op'.name = "close" /\ op'.pc = "done" /\ dev.unit = "closed") =>
          /\ pl'.last_status = op'.ans.status
          /\ op'.exc = "none"]_vars

\* What close() does on a session that has already been closed: it calls
\* pl1000CloseUnit again, records its status in last_status, and raises the
\* device error exactly when that status is not PICO_OK; nothing else changes.
C7_SecondCloseRaisesOnStatus ==
    [][(op'.name = "close" /\ op'.pc = "done" /\ dev.unit = "closed") =>
          /\ op'.calls = <<"CloseUnit">>
          /\ pl'.last_status = op'.ans.status
          /\ op'.exc = (IF op'.ans.status = "PICO_OK" THEN "none"
                        ELSE "PicoSDKCtypesError")
          /\ pl' = [pl EXCEPT !.last_status = op'.ans.status]]_vars

\* a second close that the device refused
C7_Witness ==
    /\ op.name = "close" /\ op.pc = "done"
    /\ dev.unit = "closed"
    /\ op.exc = "PicoSDKCtypesError"
    /\ op.ans.status = "PICO_NOT_FOUND" /\ pl.last_status = "PICO_NOT_FOUND"

\* C8: from any state, once close() has returned the session is Closed:
\* opened is false, and set_timing, start_recording, ready and stop fail with
\* the not-open error until open() succeeds again.
C8_ClosedAfterClose ==
    dev.unit = "closed" =>
        /\ ~pl.opened
        /\ (op.pc = "done"
            /\ op.name \in {"set_timing", "start_recording", "ready", "stop"})
           => op.exc = "ClosedDeviceError"

----------------------------------------------------------------------------
(* Claims about the device server, under SrvSpec *)

\* C4: the server's read() with no record in progress (record_initiated
\* false) is a no-op: no call to the facade or the logger, record_initiated,
\* data_ready_value, the capture buffer, overflow and trigger unchanged, and
\* False returned.
C4_ReadWithoutRecordIsNoOp ==
    [][(op'.name = "PicoPyServer.read" /\ ~srv.record_initiated)
       => /\ op'.calls = <<>>
          /\ op'.ret = "False"
          /\ op'.exc = "none"
          /\ srv' = srv
          /\ pl' = pl
          /\ dev' = dev]_vars

\* a read() refused after a capture has been read: the data stay where they are
C4_Witness ==
    /\ op.name = "PicoPyServer.read" /\ op.pc = "done"
    /\ op.ret = "False" /\ op.calls = <<>>
    /\ ~srv.record_initiated
    /\ srv.data_ready_value
    /\ pl.data.samples = "B"

\* C6 as stated: the start_recording command given while a record is in
\* progress calls neither pl1000Stop nor pl1000Run and leaves record_initiated
\* true and the capture running.
C6_SecondStartRecordingRejected ==
    [][(op'.name = "PicoPyServer.start_recording" /\ srv.record_initiated)
       => /\ \A k \in 1..Len(op'.calls) : op'.calls[k] \notin {"Stop", "Run"}
          /\ srv'.record_initiated
          /\ dev' = dev]_vars

\* C6, amended: while a record is in progress _start with a positive value is
\* refused (no call, nothing changed, False returned and the refusal logged);
\* the start_recording command stops first and starts again: on an open
\* facade whose pings are answered it calls pl1000Stop and pl1000Run, and when
\* both succeed a new capture is running and the start time is the current one.
C6_OnlyPositiveStartRejected ==
    [][/\ (op'.name = "PicoPyServer._start" /\ op'.args.value > 0
             /\ srv.record_initiated)
          => /\ op'.calls = <<>>
             /\ op'.ret = "False"
             /\ "Can not start - record in progress" \in op'.log
             /\ srv' = srv /\ pl' = pl /\ dev' = dev
       /\ (op'.name = "PicoPyServer.start_recording" /\ srv.record_initiated
             /\ op'.calls = <<"PingUnit", "Stop", "PingUnit", "Run">>
             /\ pl'.last_status = "PICO_OK")
          => /\ srv'.record_initiated /\ ~srv'.data_ready_value
             /\ srv'.state = "RUNNING"
             /\ dev'.running /\ ~dev'.ready
             /\ pl'.recording_start_time = now
       /\ (op'.name = "PicoPyServer.start_recording" /\ srv.record_initiated
             /\ pl.opened /\ pl.handle # "None")
          => op'.calls # <<>>]_vars

\* _start(1) refused while the capture started earlier is still running
C6_Witness ==
    /\ op.name = "PicoPyServer._start" /\ op.pc = "done"
    /\ op.args.value = 1
    /\ op.ret = "False"
    /\ "Can not start - record in progress" \in op.log
    /\ srv.record_initiated /\ srv.state = "RUNNING"
    /\ dev.running
    /\ pl.recording_start_time < now

\* start_recording given while recording has restarted a finished capture
C6_WitnessRestart ==
    /\ op.name = "PicoPyServer.start_recording" /\ op.pc = "done"
    /\ op.calls = <<"PingUnit", "Stop", "PingUnit", "Run">>
    /\ "Recording has been stopped" \in op.log
    /\ srv.record_initiated
    /\ dev.running /\ ~dev.ready
    /\ pl.recording_start_time = now /\ now > 1

\* the server's read() of a record in progress whose readiness query was
\* answered "ready"
ReadOfReady ==
    /\ op'.name = "PicoPyServer.read"
    /\ srv.record_initiated
    /\ Answered(pl, op'.ans.q) /\ op'.ans.q.ready = 1

\* the facade's read() that follows does not raise: there is a buffer, the
\* ping, the readiness query and pl1000GetValues are answered PICO_OK
FacadeReadPasses ==
    /\ pl.data # NoBuffer
    /\ Answered(pl, op'.ans.v)
    /\ pico_ok(op'.ans.v.gv)

\* C10 as stated: with a record in progress and the logger reporting ready,
\* read() ends with record_initiated false and data_ready_value true, and
\* overflow and trigger are what the logger reported.
C10_ReadOfReadySetsDataReady ==
    [][ReadOfReady
       => /\ ~srv'.record_initiated
          /\ srv'.data_ready_value
          /\ pl'.overflow = op'.ans.v.overflow
          /\ pl'.trigger = op'.ans.v.trigger]_vars

\* C10, amended: the same when the facade's read() does not raise, a partial
\* capture included (it is only logged); when it raises, read() ends with
\* record_initiated and data_ready_value both false.
C10_ReadOfReadyUnlessRaised ==
    [][ReadOfReady
       => /\ ~srv'.record_initiated
          /\ FacadeReadPasses
             => /\ srv'.data_ready_value
                /\ pl'.overflow = op'.ans.v.overflow
                /\ pl'.trigger = op'.ans.v.trigger
                /\ pl'.data.n = op'.ans.v.n
                /\ pl'.data.samples = op'.ans.v.samples
                /\ pl'.read_time = now
                /\ "Data hes been red" \in op'.log
                /\ (op'.ans.v.n # pl.points) <=> ("data partial reading" \in op'.log)
          /\ ~FacadeReadPasses
             => /\ ~srv'.data_ready_value
                /\ "Reading data error" \in op'.log
                /\ pl'.data = pl.data
                /\ pl'.overflow = pl.overflow /\ pl'.trigger = pl.trigger]_vars

\* a partial capture has been read: fewer points than asked for, the overflow
\* mask and the trigger index taken over, the data marked ready
C10_Witness ==
    /\ op.name = "PicoPyServer.read" /\ op.pc = "done"
    /\ op.calls = <<"PingUnit", "Ready", "PingUnit", "Ready", "GetValues">>
    /\ "data partial reading" \in op.log
    /\ pl.data.n < pl.points
    /\ pl.overflow = 1 /\ pl.trigger = 7
    /\ ~srv.record_initiated /\ srv.data_ready_value

----------------------------------------------------------------------------
(* Claims about wait_result, under WaitSpec *)

\* the fields wait_result is to leave alone
WaitKeeps ==
    /\ pl'.channels = pl.channels
    /\ pl'.points = pl.points
    /\ pl'.record_us = pl.record_us
    /\ pl'.data = pl.data
    /\ pl'.recording_start_time = pl.recording_start_time
    /\ pl'.recording_end_time = pl.recording_end_time
    /\ pl'.read_time = pl.read_time

\* wait_result(timeout) has returned from its loop, every query having been
\* answered "not ready"
WaitGaveUp ==
    /\ wr.pc = "done" /\ op.name = "wait_result"
    /\ op.args.use_timer = "None"
    /\ op.exc = "none" /\ op.ans.ready = 0

\* C9: wait_result(timeout) on an open device that keeps answering "not
\* ready" comes to an end, returns False, and only once the time since t0 (by
\* the clock, or by the count of its sleeps where the clock does not show them)
\* is more than timeout; no step of it before a "ready" answer changes
\* channels, points, record_us, the buffer or the recording timestamps.
C9_WaitTimesOut ==
    /\ [](WaitGaveUp
          => /\ op.ret = "False"
             /\ \/ now - wr.t0 > wr.timeout
                \/ ~wr.use_timer /\ wr.i * dt > wr.timeout)
    /\ [][(wr.pc \in WaitActive /\ ~(wr'.pc = "done" /\ op'.ans.ready = 1))
          => WaitKeeps]_vars
    /\ (wr.pc \in WaitActive) ~> (wr.pc = "done")

\* a wait on a running capture has given up after more than its timeout by
\* the clock
C9_Witness ==
    /\ WaitGaveUp
    /\ op.ret = "False"
    /\ wr.use_timer /\ wr.timeout > 0
    /\ now - wr.t0 > wr.timeout
    /\ dev.running /\ ~dev.ready
    /\ pl.opened /\ pl.recording_end_time = 0

----------------------------------------------------------------------------
(* Claims about set_trigger, under TrigSpec *)

\* the eight stored trigger parameters
TriggerStored(p) ==
    <<p.trigger_enabled, p.trigger_channel, p.trigger_edge, p.trigger_threshold,
      p.trigger_hysteresis, p.trigger_delay, p.trigger_auto, p.trigger_ms>>

\* the eight arguments as they are to be stored: a channel name resolved
TriggerPassed(a) ==
    <<a.enabled,
      [int |-> IF is_str(a.channel) THEN PL1000Inputs(a.channel.str)
               ELSE a.channel.int],
      a.edge, a.threshold, a.hysteresis, a.delay_percent, a.auto_trigger,
      a.auto_ms>>

\* a set_trigger call on an open facade has got its answer from pl1000SetTrigger
TriggerAnswered ==
    /\ op'.name = "set_trigger" /\ op'.pc = "done"
    /\ pl.opened
    /\ op'.calls = <<"PingUnit", "SetTrigger">>

\* C11: set_trigger on an open device: when pl1000SetTrigger answers a status
\* other than PICO_OK the call raises the device error and none of the eight
\* stored trigger parameters changes; when it answers PICO_OK every one of
\* the eight equals the argument passed, a channel name stored as its number.
C11_TriggerStoredOnSuccessOnly ==
    [][TriggerAnswered
       => /\ pl'.last_status = op'.ans.status
          /\ ~pico_ok(op'.ans.status)
             => /\ op'.exc = "PicoSDKCtypesError"
                /\ TriggerStored(pl') = TriggerStored(pl)
          /\ pico_ok(op'.ans.status)
             => /\ op'.exc = "none"
                /\ TriggerStored(pl') = TriggerPassed(op'.args)]_vars

\* a call refused by the device after one that stored a channel given by
\* name: the stored parameters are still those of the earlier call
C11_Witness ==
    /\ op.name = "set_trigger" /\ op.pc = "done"
    /\ op.exc = "PicoSDKCtypesError"
    /\ op.calls = <<"PingUnit", "SetTrigger">>
    /\ pl.last_status = "PICO_NOT_FOUND"
    /\ TriggerStored(pl) # TriggerPassed(op.args)
    /\ pl.trigger_channel = [int |-> 2] /\ pl.trigger_edge = 0
    /\ op.args.edge = 1

----------------------------------------------------------------------------
(* Claims about the device server's configuration, under CfgSpec *)

\* apply_config has run, in set_config or as a command, and its timing step
\* or its trigger step has raised
ApplyConfigFailed ==
    \/ op'.name = "PicoPyServer.apply_config" /\ op'.pc = "done" /\ op'.exc # "none"
    \/ op'.name = "PicoPyServer.set_config" /\ op'.pc = "done" /\ op'.ret = "False"

\* C12: whenever apply_config is invoked, during initialisation or as a
\* command, and its timing step or its trigger step fails, the server's state
\* afterwards is FAULT.
C12_FailedApplyConfigFaults ==
    [][ApplyConfigFailed => srv'.state = "FAULT"]_vars

\* what the code does: a failure in set_config ends in FAULT; a failure of the
\* apply_config command goes to the caller and leaves the state as it was
C12_FailedCommandKeepsState ==
    [][/\ (op'.name = "PicoPyServer.set_config" /\ op'.pc = "done"
             /\ op'.ret = "False")
          => srv'.state = "FAULT"
       /\ (op'.name = "PicoPyServer.apply_config" /\ op'.pc = "done"
             /\ op'.exc # "none")
          => srv'.state = srv.state]_vars

----------------------------------------------------------------------------
(* Claims about opening and about a facade that is not open, under Spec *)

\* open() has run and pl1000OpenUnit or pl1000MaxValue has answered a status
\* other than PICO_OK
OpenRefused ==
    /\ op'.name = "open" /\ op'.pc = "done"
    /\ ~pico_ok(pl'.last_status)

----------------------------------------------------------------------------
(* Claims about a facade that is not open, under OpsSpec *)

\* one of the six operations has been called on a facade whose opened is false
CalledNotOpen ==
    /\ op'.pc = "done"
    /\ op'.name \in {"set_timing", "set_trigger", "start_recording", "ready",
                     "read", "stop"}
    /\ ~pl.opened

\* C14: set_timing (with valid arguments), set_trigger, start_recording,
\* ready, read and stop, called while no open() has succeeded, fail with the
\* not-open error, make no call to the SDK and change no field of the facade.
C14_NotOpenFailsUntouched ==
    [][CalledNotOpen
       => /\ op'.exc = "ClosedDeviceError"
          /\ op'.calls = <<>>
          /\ pl' = pl
          /\ dev' = dev]_vars

\* set_trigger refused on a facade whose only open() was refused by the unit
C14_Witness ==
    /\ op.name = "set_trigger" /\ op.pc = "done"
    /\ op.exc = "ClosedDeviceError" /\ op.calls = <<>>
    /\ pl.handle = "c_int16" /\ ~pl.opened
    /\ pl.last_status = "PICO_NOT_FOUND"
    /\ dev.unit = "never opened"
    /\ pl.trigger_channel = [str |-> "PL1000_CHANNEL_1"]
    /\ pl.data = NoBuffer

----------------------------------------------------------------------------
(* Claims about reconnect(), under ReconSpec *)

\* reconnect() has been called with reconnect enabled and last_status equal
\* to the device-not-found status
ReconnectCalledLost ==
    /\ op'.name = "reconnect" /\ op'.pc = "done"
    /\ pl.reconnect_enabled
    /\ pl.last_status = "PICO_NOT_FOUND"

\* the call made an attempt: it went to the SDK, pl1000Stop first
ReconAttempted == op'.calls # <<>> /\ Head(op'.calls) = "Stop"

\* the SDK calls of an attempt start with stop, close, open; set_timing and
\* set_trigger follow as far as the attempt gets
ReconSequence ==
    \E k \in 3..8 :
       op'.calls = SubSeq(<<"Stop", "CloseUnit", "OpenUnit", "MaxValue", "PingUnit",
                            "SetInterval", "PingUnit", "SetTrigger">>, 1, k)

\* C15: with reconnect enabled and last_status not-found, the call that is
\* the third such occurrence or a later one, made once the cooldown has
\* elapsed (time.time() >= reconnect_timeout), attempts stop, close, open,
\* set_timing, set_trigger; before the third occurrence, or before the
\* cooldown has elapsed, no attempt is made.
C15_AttemptAfterCooldown ==
    [][ReconnectCalledLost
       => /\ ReconAttempted <=> (pl.reconnect_count - 1 <= 0
                                  /\ now >= pl.reconnect_timeout)
          /\ ReconAttempted => ReconSequence]_vars

\* what the code does: the attempt is made when the countdown is over and
\* the time is still before reconnect_timeout
C15_AttemptInsideWindow ==
    [][ReconnectCalledLost
       => /\ ReconAttempted <=> (pl.reconnect_count - 1 <= 0
                                  /\ now < pl.reconnect_timeout)
          /\ ReconAttempted => ReconSequence
          /\ pl'.reconnect_count = pl.reconnect_count - 1 \/ ReconAttempted]_vars

\* a third occurrence after the cooldown has elapsed, and no attempt
C15_NoAttemptAfterCooldown ==
    /\ op.name = "reconnect" /\ op.pc = "done" /\ op.calls = <<>>
    /\ pl.reconnect_enabled /\ pl.last_status = "PICO_NOT_FOUND"
    /\ pl.reconnect_count = 0
    /\ pl.reconnect_timeout = NewPicoLog.reconnect_timeout
    /\ now >= pl.reconnect_timeout

\* open and reconfiguration succeeded: the attempt got to pl1000SetTrigger
\* and that call answered PICO_OK
ReconSucceeded ==
    /\ Len(op'.calls) = 8 /\ op'.calls[8] = "SetTrigger"
    /\ pico_ok(pl'.last_status)

\* C16: an attempt of reconnect() whose open and reconfiguration succeed
\* leaves the retry counter at 3 and the session open; an attempt in which a
\* step fails leaves the cooldown deadline in the future and opened false;
\* no exception leaves reconnect().
C16_AttemptOutcome ==
    [][(op'.name = "reconnect" /\ op'.pc = "done")
       => /\ op'.exc = "none"
          /\ (ReconAttempted /\ ReconSucceeded)
             => /\ pl'.reconnect_count = 3
                /\ pl'.opened
          /\ (ReconAttempted /\ ~ReconSucceeded)
             => /\ pl'.reconnect_timeout > now
                /\ ~pl'.opened]_vars

\* an attempt that opened the unit and set the timing, and whose set_trigger
\* was refused
C16_Witness ==
    /\ op.name = "reconnect" /\ op.pc = "done" /\ op.exc = "none"
    /\ Len(op.calls) = 8
    /\ pl.last_status = "PICO_NOT_FOUND"
    /\ ~pl.opened
    /\ pl.reconnect_timeout = now + 5
    /\ pl.reconnect_count <= 0
    /\ dev.unit = "open"

\* an attempt that succeeded
C16_Reconnected ==
    /\ op.name = "reconnect" /\ op.pc = "done" /\ op.exc = "none"
    /\ Len(op.calls) = 8
    /\ pl.last_status = "PICO_OK"
    /\ pl.opened
    /\ pl.reconnect_timeout = now + 5
    /\ pl.reconnect_count = 3

----------------------------------------------------------------------------
(* Claims about set_sampling(), under CfgSpec *)

WriteNames ==
    {"PicoPyServer.write_points_per_channel",
     "PicoPyServer.write_channel_record_time_us",
     "PicoPyServer.write_channels"}

\* one of the operations that reach set_sampling() has ended and the
\* set_timing call of set_sampling() did not raise: pl1000SetInterval was
\* called, and either answered the last call of the operation without an
\* exception or was followed by further calls
SamplingSucceeded ==
    /\ op'.pc = "done"
    /\ op'.name \in WriteNames \cup {"PicoPyServer.apply_config"}
    /\ \E k \in 1..Len(op'.calls) :
          /\ op'.calls[k] = "SetInterval"
          /\ k < Len(op'.calls) \/ (op'.exc = "none" /\ op'.log \cap
                {"Incorrect points_per_channel", "Incorrect channel_record_time_us",
                 "Incorrect channels value"} = {})

\* a write_* operation has failed: its except branch has logged
WriteFailed(name, message) ==
    /\ op'.pc = "done" /\ op'.name = name
    /\ message \in op'.log

\* C17: after a successful set_sampling() the configuration's
\* points_per_channel and channel_record_time_us are the facade's points and
\* record_us, the corrected values in place of the requested ones; a write_*
\* operation that fails leaves the key it wrote at the value it had before.
C17_ConfigFollowsFacade ==
    [][/\ SamplingSucceeded
          => /\ srv'.config.points_per_channel = pl'.points
             /\ srv'.config.channel_record_time_us = Wide(0, pl'.record_us)
       /\ WriteFailed("PicoPyServer.write_points_per_channel",
                      "Incorrect points_per_channel")
          => srv'.config.points_per_channel = srv.config.points_per_channel
       /\ WriteFailed("PicoPyServer.write_channel_record_time_us",
                      "Incorrect channel_record_time_us")
          => srv'.config.channel_record_time_us = srv.config.channel_record_time_us
       /\ WriteFailed("PicoPyServer.write_channels", "Incorrect channels value")
          => srv'.config.channels = srv.config.channels]_vars

\* 2,000,000 points were written for one channel and 1,000,000 are configured
C17_Witness ==
    /\ op.name = "PicoPyServer.write_points_per_channel" /\ op.pc = "done"
    /\ op.args.value = 2000000
    /\ op.exc = "none" /\ "Incorrect points_per_channel" \notin op.log
    /\ srv.config.points_per_channel = 1000000
    /\ pl.points = 1000000
    /\ srv.config.channel_record_time_us = Wide(0, pl.record_us)
    /\ pl.data = NewBuffer(1, 1000000)

\* a write that failed after a value had been written: the key is back
C17_Restored ==
    /\ op.name = "PicoPyServer.write_points_per_channel" /\ op.pc = "done"
    /\ op.args.value = 2000000
    /\ "Incorrect points_per_channel" \in op.log
    /\ srv.config.points_per_channel = 500

----------------------------------------------------------------------------
(* Claims about the time-offset table, under TimesSpec *)

\* a set_timing call has ended without raising
TimingDone == op.name = "set_timing" /\ op.pc = "done" /\ op.exc = "none"

\* the table has one row per configured channel and one column per point
TimesShape ==
    /\ pl.times.rows = Len(pl.channels)
    /\ pl.times.cols = pl.points

\* j*D + i*D/len(channels) as a fraction, D being the stored sampling
TimesExact(i, j) ==
    LET nc == Len(pl.channels)
        n == (j * nc + i) * pl.sampling.num
        d == nc * pl.sampling.den
    IN [num |-> n \div Gcd(n, d), den |-> d \div Gcd(n, d)]

\* the single-precision number t is the fraction x
EqualsExact(t, x) == t.m * x.den = x.num * 2^t.e

\* t is x to within x / 2^22
EqualsFloat32(t, x) ==
    LET a == t.m * x.den
        b == x.num * 2^t.e
    IN (IF a > b THEN a - b ELSE b - a) <= b \div 4194304

\* C18 as stated: after a set_timing that does not raise, the table has one
\* row per channel, one column per point, and times[i][j] equals
\* j*D + i*D/len(channels) for every row i and column j.
C18_TimesEqualFormula ==
    TimingDone
    => /\ TimesShape
       /\ \A i \in 0..(pl.times.rows - 1), j \in 0..(pl.times.cols - 1) :
             EqualsExact(times_at(pl.times, i, j), TimesExact(i, j))

\* C18: after a set_timing that does not raise, the table has one row per
\* channel and one column per point, and times[i][j] is
\* j*D + i*D/len(channels) to single precision: within one part in 2^22, and
\* equal to it when i = 0 and j = 0.
C18_TimesFollowFormula ==
    TimingDone
    => /\ TimesShape
       /\ pl.sampling = SamplingOf(pl.record_us, pl.points)
       /\ pl.times.step = pl.sampling
       /\ times_at(pl.times, 0, 0) = Float32(0, 0)
       /\ \A i \in 0..(pl.times.rows - 1), j \in 0..(pl.times.cols - 1) :
             EqualsFloat32(times_at(pl.times, i, j), TimesExact(i, j))

\* three channels of five points, 18 ms a record: times[1][0] is the
\* float32 nearest to 1.2 ms and not 1.2 ms
C18_Witness ==
    /\ TimingDone
    /\ Len(pl.channels) = 3 /\ pl.points = 5 /\ pl.record_us = 18000
    /\ pl.times.rows = 3 /\ pl.times.cols = 5
    /\ times_at(pl.times, 1, 0) = Float32(10066330, 23)
    /\ ~EqualsExact(times_at(pl.times, 1, 0), TimesExact(1, 0))
    /\ EqualsExact(times_at(pl.times, 0, 0), TimesExact(0, 0))

----------------------------------------------------------------------------
(* Claims about the stored timing, under SeqSpec *)

\* C19: after any sequence of set_timing calls with 1 to 16 channels and
\* positive points and record_us, when the last call did not raise,
\* len(channels) * points <= 1,000,000 for the stored channels and points and
\* the data buffer has shape (len(channels), points).
C19_StoredWithinCapture ==
    (op.name = "set_timing" /\ op.pc = "done" /\ op.exc = "none")
    => /\ pl.channels = op.args.channels
       /\ Len(pl.channels) * pl.points <= 1000000
       /\ pl.points > 0
       /\ pl.data.rows = Len(pl.channels)
       /\ pl.data.cols = pl.points

\* 2,000,000 points for each of three channels asked of a facade configured
\* before for sixteen: 333,333 are stored
C19_Witness ==
    /\ op.name = "set_timing" /\ op.pc = "done" /\ op.exc = "none"
    /\ op.args.points = 2000000 /\ Len(op.args.channels) = 3
    /\ pl.points = 333333
    /\ pl.data = NewBuffer(3, 333333)
    /\ pl.trigger_enabled = 0

----------------------------------------------------------------------------
(* Claims about ready(), under Spec *)

\* ready() has been called on an open facade
ReadyCalled == op'.name = "ready" /\ op'.pc = "done" /\ pl.opened

\* C20 as stated: a call to ready() makes exactly one call to the device
\* and, apart from last_status, leaves every field of the facade, the
\* recording timestamps among them, as it was.
C20_ReadyOneQueryNoChange ==
    [][ReadyCalled
       => /\ Len(op'.calls) = 1
          /\ [pl' EXCEPT !.last_status = pl.last_status] = pl]_vars

\* C20: a call to ready() on an open facade pings the unit and, when the
\* unit answers, asks it once whether the capture is over; apart from
\* last_status the only field it writes is recording_end_time, which the
\* first call answered "ready" sets to the time of the call while it is 0.
C20_ReadyPollsAndStampsOnce ==
    [][ReadyCalled
       => /\ op'.calls \in {<<"PingUnit">>, <<"PingUnit", "Ready">>}
          /\ op'.exc = "none" => op'.calls = <<"PingUnit", "Ready">>
          /\ [pl' EXCEPT !.last_status = pl.last_status,
                         !.recording_end_time = pl.recording_end_time] = pl
          /\ pl'.recording_end_time # pl.recording_end_time
             <=> (op'.ret = "1" /\ pl.recording_end_time = 0)
          /\ pl'.recording_end_time # pl.recording_end_time
             => pl'.recording_end_time = now]_vars

\* the first ready answer of a recording: two calls to the device, and the
\* end of the recording stamped
C20_Witness ==
    /\ op.name = "ready" /\ op.pc = "done" /\ op.ret = "1"
    /\ op.calls = <<"PingUnit", "Ready">>
    /\ pl.recording_start_time = 1
    /\ pl.recording_end_time = 2
    /\ now = 2
    /\ pl.read_time = 0

----------------------------------------------------------------------------
(* Claims about a reconnect() that is not wanted, under ReconSpec *)

\* reconnect() has been called while reconnect is disabled or the last
\* status is not the device-not-found status
ReconnectCalledIdle ==
    /\ op'.name = "reconnect" /\ op'.pc = "done"
    /\ ~pl.reconnect_enabled \/ pl.last_status # "PICO_NOT_FOUND"

\* C30: reconnect() called while reconnect is disabled, or while last_status
\* is not the device-not-found status, makes no device call and leaves every
\* field of the facade as it was: reconnect_count, reconnect_timeout, opened,
\* handle and the stored timing and trigger parameters among them.
C30_IdleReconnectChangesNothing ==
    [][ReconnectCalledIdle
       => /\ op'.calls = <<>>
          /\ op'.exc = "none"
          /\ pl' = pl
          /\ dev' = dev]_vars

\* reconnect() called with reconnect enabled on a configured facade whose
\* last status is PICO_OK: nothing is counted
C30_Witness ==
    /\ op.name = "reconnect" /\ op.pc = "done" /\ op.calls = <<>>
    /\ pl.reconnect_enabled
    /\ pl.last_status = "PICO_OK"
    /\ pl.reconnect_count = 3
    /\ pl.channels = Chan(4)
    /\ pl.opened

----------------------------------------------------------------------------
(* Claims about set_timing with no channels, under SeqSpec *)

\* set_timing has been called with an empty channel list
EmptyChannelsCalled ==
    /\ op'.name = "set_timing" /\ op'.pc = "done"
    /\ op'.args.channels = <<>>

\* C29: set_timing called with an empty channel list returns False without
\* raising, makes no device call and leaves channels, points, record_us and
\* the buffers unchanged.
C29_EmptyChannelsRejected ==
    [][EmptyChannelsCalled
       => /\ op'.ret = "False" /\ op'.exc = "none"
          /\ op'.calls = <<>>
          /\ pl' = pl]_vars

\* what the code does: the division by total_points = 0 raises before the
\* session is looked at; no device call, no field changed
C29_EmptyChannelsRaise ==
    [][EmptyChannelsCalled
       => /\ op'.exc = "ZeroDivisionError"
          /\ op'.calls = <<>>
          /\ pl' = pl]_vars

\* an empty channel list asked of a facade configured for three channels
C29_EmptyChannelsRaised ==
    /\ op.name = "set_timing" /\ op.pc = "done"
    /\ op.args.channels = <<>>
    /\ op.exc = "ZeroDivisionError"
    /\ pl.channels = Chan(3)

----------------------------------------------------------------------------
(* Claims about a set_timing that raises, under SeqSpec *)

\* set_timing has raised because the session is not open or because the
\* device did not take the interval
TimingRefused ==
    /\ op'.name = "set_timing" /\ op'.pc = "done"
    /\ op'.exc \in {"ClosedDeviceError", "PicoSDKCtypesError"}

\* C27: when set_timing raises because the session is not open or the device
\* rejects the interval request, channels, points, record_us, sampling, data
\* and times keep the values they had before the call; only last_status may
\* change.
C27_RefusedTimingKeepsFields ==
    [][TimingRefused
       => /\ [pl' EXCEPT !.last_status = pl.last_status] = pl
          /\ op'.exc = "ClosedDeviceError" => pl' = pl]_vars

\* sixteen channels refused by pl1000SetInterval on a facade configured for
\* three: the three stay
C27_Witness ==
    /\ op.name = "set_timing" /\ op.pc = "done"
    /\ op.exc = "PicoSDKCtypesError"
    /\ op.calls = <<"PingUnit", "SetInterval">>
    /\ op.args.channels = Chan(16)
    /\ pl.channels = Chan(3)
    /\ pl.data.rows = 3
    /\ pl.last_status = "PICO_NOT_FOUND"

\* set_timing refused on a facade that was never opened
C27_NotOpen ==
    /\ op.name = "set_timing" /\ op.pc = "done"
    /\ op.exc = "ClosedDeviceError"
    /\ pl = NewPicoLog

----------------------------------------------------------------------------
(* Claims about wait_result on a clock that stands still, under FrozenSpec *)

\* wait_result(timeout) with the default use_timer is under way
FrozenWaiting == wr.pc \in WaitActive /\ op.args.use_timer = "None"

\* C24: wait_result(timeout) with the default use_timer, on a device that
\* never reports ready and a clock that does not advance, comes to an end and
\* returns False: the probe turns the timer off and the count of the sleeps,
\* timeout/dt + 1 of them, ends the loop.
C24_FrozenClockWaitEnds ==
    /\ [](WaitGaveUp
          => /\ op.ret = "False"
             /\ ~wr.use_timer
             /\ now = wr.t0
             /\ wr.i * dt > wr.timeout
             /\ (wr.i - 1) * dt <= wr.timeout)
    /\ [](FrozenWaiting /\ wr.pc # "probe" => ~wr.use_timer)
    /\ FrozenWaiting ~> (wr.pc = "done")

\* a wait of two sleeps' length on a running capture has given up after three
\* sleeps, the clock where it was
C24_Witness ==
    /\ WaitGaveUp
    /\ op.ret = "False"
    /\ wr.timeout = 2 /\ wr.i = 3
    /\ ~wr.use_timer
    /\ now = 1 /\ wr.t0 = 1
    /\ dev.running /\ ~dev.ready
    /\ pl.opened

----------------------------------------------------------------------------
(* Claims about stop_recording and the published state, under SrvSpec *)

\* stop_recording has returned
StopRecordingDone == op'.name = "PicoPyServer.stop_recording" /\ op'.pc = "done"

\* the facade's stop() went through: pl1000Stop was called and answered
\* PICO_OK
DeviceStopped ==
    /\ op'.calls = <<"PingUnit", "Stop">>
    /\ pico_ok(pl'.last_status)

C22_StopRefused ==
    /\ op.name = "PicoPyServer.stop_recording" /\ op.pc = "done"
    /\ op.calls = <<"PingUnit", "Stop">>
    /\ pl.last_status = "PICO_NOT_FOUND"
    /\ srv.state = "FAULT"
    /\ ~srv.record_initiated
    /\ dev.running

\* C23: in every state after a successful initialisation the published state
\* is RUNNING exactly when record_initiated is true.
C23_RunningIffRecording ==
    (Configured /\ pl.opened /\ pl.data # NoBuffer)
    => (srv.state = "RUNNING" <=> srv.record_initiated)

\* what the code keeps: a record in progress is published as RUNNING
C23_RecordingIsRunning ==
    srv.record_initiated => srv.state = "RUNNING"

\* the data are ready, the record is over and the state is still RUNNING
C23_ReadLeavesRunning ==
    /\ op.name = "looping" /\ op.pc = "done"
    /\ srv.data_ready_value /\ ~srv.record_initiated
    /\ srv.state = "RUNNING"
    /\ pl.opened /\ pl.last_status = "PICO_OK"

----------------------------------------------------------------------------
(* PollSpec: one registered device whose recordings are started and then
   left to the event loop: no stop, no reconfiguration, no second start
   while a record is in progress.  The logger answers every readiness
   query, those of the loop, of read() and of the facade's read();
   pl1000GetValues may refuse.  The capture finishes and the loop keeps
   being called. *)

\* the readiness queries the logger answers in full
PollQueries(p, d) == {q \in QueryAnswers(p, d) : Answered(p, q)}

\* the answers to the facade's read() whose readiness query is answered in
\* full: pl1000GetValues may still refuse
PollReads(p, d) == {a \in ReadAnswers(p, d) : Answered(p, a)}

PollStart ==
    /\ Configured
    /\ ~srv.record_initiated
    /\ \E r \in CallAnswers(pl) :
          ServerStep("PicoPyServer._start", [value |-> 0], <<>>,
                     _start(srv, pl, dev, 0, r, now))

PollLooping ==
    /\ Configured
    /\ \E r0 \in IF srv.record_initiated THEN PollQueries(pl, dev)
                 ELSE {NoQuery} :
       \E r2 \in IF srv.record_initiated /\ ready(pl, r0, now).ret = "1"
                 THEN PollReads(pl, dev) ELSE {NoAnswers(pl)} :
       \E b \in {looping(srv, pl, dev, r0, r0, r2, now)} :
          ServerStep("looping", <<>>, [q |-> r0, v |-> r2], b)

PollNext ==
    \/ SrvSetConfig
    \/ PollStart
    \/ PollLooping
    \/ DeviceCompletes

PollSpec ==
    /\ SrvInit /\ [][PollNext]_vars
    /\ WF_vars(PollLooping) /\ WF_vars(DeviceCompletes)

----------------------------------------------------------------------------
(* Claims about the two flags and the buffer, under LifeSpec *)

\* C25: in every state the device server reaches by its operations, device
\* calls failing or not, record_initiated and data_ready_value are never
\* both true.
C25_NeverRecordingAndReady ==
    ~(srv.record_initiated /\ srv.data_ready_value)

\* a start after a read had made the data ready: the record is in progress
\* and the data are no longer ready
C25_Witness ==
    /\ op.name = "PicoPyServer._start" /\ op.pc = "done" /\ op.ret = "True"
    /\ srv.record_initiated /\ ~srv.data_ready_value
    /\ pl.data.samples = "A"
    /\ pl.read_time = 0
    /\ dev.running

\* the buffer holds what a read of the facade delivered
BufferFilled == pl.data.samples \in {v.samples : v \in ValuesAnswers(pl.points)}

\* C26: whenever data_ready_value is true the buffer exposed is the one the
\* last successful set_timing made, filled by a read of the facade after it
\* and after the last start: the buffer is no fresh one and read_time, which
\* every start resets, is set.
C26_ReadyDataAreRead ==
    srv.data_ready_value
    => /\ BufferFilled
       /\ pl.read_time # 0
       /\ pl.read_time >= pl.recording_start_time
       /\ pl.data.rows = Len(pl.channels)
       /\ pl.data.cols = pl.points
       /\ ~srv.record_initiated

\* the event loop has read a finished capture
C26_Witness ==
    /\ op.name = "looping" /\ op.pc = "done"
    /\ srv.data_ready_value
    /\ pl.data.samples = "B" /\ pl.data.n < pl.points
    /\ pl.read_time = now
    /\ dev.ready

\* the buffer replaced by set_sampling while a recording is in progress
C26_ReplacedWhileRecording ==
    /\ op.name = "PicoPyServer.set_sampling" /\ op.pc = "done" /\ op.exc = "none"
    /\ srv.record_initiated /\ ~srv.data_ready_value
    /\ pl.data.samples = "uninitialized"
    /\ pl.read_time = 0
    /\ dev.running /\ dev.ready

\* write_channels has been called with a text that is no list or with an
\* empty list
BadChannelsWritten ==
    /\ op'.name = "PicoPyServer.write_channels" /\ op'.pc = "done"
    /\ list_from_str(op'.args.value) = <<>>

\* C28: write_channels with a value that is not a list literal, or is an
\* empty list, leaves config['channels'], the facade's channels, points,
\* record_us and buffer and data_ready_value as they were, and raises nothing.
C28_BadChannelsChangeNothing ==
    [][BadChannelsWritten
       => /\ srv' = srv
          /\ pl' = pl
          /\ dev' = dev
          /\ op'.exc = "none"
          /\ op'.calls = <<>>
          /\ "Incorrect channels value" \in op'.log]_vars

\* a text that is no list written while the data of a read are ready
C28_Witness ==
    /\ op.name = "PicoPyServer.write_channels" /\ op.pc = "done"
    /\ op.args.value = "channels"
    /\ "Incorrect channels value" \in op.log
    /\ srv.config.channels = "[1]"
    /\ srv.data_ready_value
    /\ pl.channels = <<1>>
    /\ pl.data.samples = "A"

----------------------------------------------------------------------------
(* The event loop, under PollSpec *)

\* data_ready_value becomes true only in a pass of the loop made after the
\* logger had finished the capture of the record in progress, and the pass
\* has stamped its end
ReadyOnlyAfterCapture ==
    [][~srv.data_ready_value /\ srv'.data_ready_value
       => /\ srv.record_initiated /\ ~srv'.record_initiated
          /\ dev.running /\ dev.ready
          /\ op'.name = "looping"
          /\ op'.ans.q.ready = 1
          /\ pl'.recording_end_time # 0
          /\ pl'.recording_end_time >= pl'.recording_start_time]_vars

\* the read of the loop has raised and the record is given up
ReadGivenUp ==
    /\ op.name = "looping"
    /\ "Reading data error" \in op.log
    /\ ~srv.record_initiated /\ ~srv.data_ready_value

\* the loop has read the capture
DataDelivered == srv.data_ready_value /\ ~srv.record_initiated

\* C21 as stated: a started record, left to the loop, ends with the data
\* ready; and the data are never ready before the logger has reported ready.
C21_StartedEndsReady ==
    /\ srv.record_initiated ~> DataDelivered
    /\ ReadyOnlyAfterCapture

\* C21: a started record, left to the loop, ends with the data ready
\* unless the read itself raises, which ends it with neither flag set; and
\* the data are never ready before the logger has reported ready.
C21_StartedEndsReadyOrGivenUp ==
    /\ srv.record_initiated ~> (DataDelivered \/ ReadGivenUp)
    /\ ReadyOnlyAfterCapture

\* a pass of the loop has read a finished capture
C21_Witness ==
    /\ op.name = "looping" /\ op.pc = "done"
    /\ "Recording finished, data is ready" \in op.log
    /\ "Data hes been red" \in op.log
    /\ DataDelivered
    /\ op.ans.q.ready = 1
    /\ dev.ready
    /\ pl.recording_end_time # 0
    /\ pl.read_time # 0

\* a pass of the loop whose read was refused by pl1000GetValues
C21_ReadRefused ==
    /\ ReadGivenUp
    /\ op.ans.q.ready = 1
    /\ ~pico_ok(op.ans.v.gv)
    /\ dev.running /\ dev.ready

====
